---- MODULE Spec2Model ----
(***************************************************************************)
(* A model of the multibagger research system: the supervisor's synthesis  *)
(* (agents/supervisor_agent.py), the fundamental scorer                    *)
(* (agents/fundamental_agent.py), the technical scorer                     *)
(* (agents/technical_agent.py) and the discovery loop (main_system.py).    *)
(*                                                                         *)
(* Numbers.  The program computes in floating point; the model computes in *)
(* fixed point.  Agent scores (0-10 with two decimals) are integers in     *)
(* hundredths of a point, so that score/10 is the same integer read in     *)
(* thousandths.  Weights are integers in hundredths.  A weighted score, a  *)
(* threshold and a multibagger_probability are integers in units of 1e-5   *)
(* (ONE is 1.0).                                                           *)
(***************************************************************************)
EXTENDS Integers, Sequences, FiniteSets, TLC

VARIABLES
    \* SupervisorAgent
    agent_weights,                  \* self.agent_weights
    sup_pc,                         \* "idle" | "done" | "failed": synthesize_analysis not yet called / returned / returned from its handler
    stock_analyses,                 \* the argument of synthesize_analysis
    high_probability_multibaggers,  \* the three local lists of synthesize_analysis
    early_watchlist,
    rejected_stocks,
    final_output                    \* the value synthesize_analysis returned

supVars == <<agent_weights, sup_pc, stock_analyses, high_probability_multibaggers,
             early_watchlist, rejected_stocks, final_output>>


----------------------------------------------------------------------------
(* Small helpers of the model. *)

Min(a, b) == IF a <= b THEN a ELSE b
Max(a, b) == IF a >= b THEN a ELSE b

\* Python's s[:n]
Take(s, n) == SubSeq(s, 1, Min(n, Len(s)))

\* All sequences over S of length 0..n
SeqUpTo(S, n) == UNION {[1..k -> S] : k \in 0..n}

\* A value read from a mapping: a number, a missing key, or a value that is
\* no number (a string, None).
Num(v) == [tag |-> "num", val |-> v]
Absent == [tag |-> "absent", val |-> 0]
NotANumber == [tag |-> "bad", val |-> 0]

\* A label read from a mapping; the missing key is the label NoKey.
NoKey == "<absent>"

\* A list read from a mapping; None is no list.
ListOf(items) == [is_list |-> TRUE, items |-> items]
NoList == [is_list |-> FALSE, items |-> <<>>]

\* A section of a stock's data that the caller passes as None.
NoneValue == [is_mapping |-> FALSE]

\* The text, appended to a list when the flag holds.
Evidence(flag, text) == IF flag THEN <<text>> ELSE <<>>

----------------------------------------------------------------------------
(* SupervisorAgent: constants *)

ONE == 100000

multibagger_threshold == 60000
watchlist_threshold == 45000
RejectedShown == 10

\* dict.get(key, default) for a number
GetNum(value, default) == IF value.tag = "absent" THEN Num(default) ELSE value

\* dict.get(key, default) for a label
GetLabel(label, default) == IF label = NoKey THEN default ELSE label

----------------------------------------------------------------------------
(* SupervisorAgent._normalize_technical_score: the stage table (tenths)     *)
(* times the risk/reward table (hundredths), capped at 1.0; thousandths.    *)

stage_scores(technical_stage) ==
    CASE technical_stage = "BREAKOUT" -> 9
      [] technical_stage = "BASE" -> 7
      [] technical_stage = "EXTENDED" -> 4
      [] OTHER -> 6

rr_multipliers(risk_reward) ==
    CASE risk_reward = "1:3+" -> 120
      [] risk_reward = "1:2" -> 110
      [] risk_reward = "1:1.5" -> 100
      [] risk_reward = "1:1" -> 95
      [] OTHER -> 100

\* the product of the two tables without the cap
normalize_technical_score_uncapped(technical_output) ==
    IF ~technical_output.is_mapping
    THEN 600
    ELSE stage_scores(GetLabel(technical_output.technical_stage, "BASE"))
           * rr_multipliers(GetLabel(technical_output.risk_reward_ratio, "1:1"))

normalize_technical_score(technical_output) ==
    IF ~technical_output.is_mapping
    THEN 600    \* .get raises, the handler returns 0.6
    ELSE Min(1000,
             stage_scores(GetLabel(technical_output.technical_stage, "BASE"))
               * rr_multipliers(GetLabel(technical_output.risk_reward_ratio, "1:1")))

(* SupervisorAgent._normalize_policy_score *)

strength_scores(policy_strength) ==
    CASE policy_strength = "STRONG" -> 9
      [] policy_strength = "MODERATE" -> 7
      [] policy_strength = "WEAK" -> 4
      [] OTHER -> 4

horizon_multipliers(time_horizon) ==
    CASE time_horizon = "LONG" -> 110
      [] time_horizon = "MEDIUM" -> 100
      [] time_horizon = "SHORT" -> 90
      [] OTHER -> 100

normalize_policy_score(policy_output) ==
    IF ~policy_output.is_mapping
    THEN 400    \* .get raises, the handler returns 0.4
    ELSE Min(1000,
             strength_scores(GetLabel(policy_output.policy_tailwind_strength, "WEAK"))
               * horizon_multipliers(GetLabel(policy_output.time_horizon, "SHORT")))

----------------------------------------------------------------------------
(* SupervisorAgent._calculate_weighted_score *)

\* The body of the try block raises: .get on an output that is no mapping, a
\* score that does not divide by 10, a weight that is missing or no number.
WeightedScoreRaises(weights, fundamental_output, management_output, smart_money_output) ==
    \/ ~fundamental_output.is_mapping
    \/ ~management_output.is_mapping
    \/ ~smart_money_output.is_mapping
    \/ fundamental_output.fundamental_score.tag = "bad"
    \/ management_output.management_quality_score.tag = "bad"
    \/ smart_money_output.smart_money_conviction_score.tag = "bad"
    \/ \E k \in DOMAIN weights : weights[k].tag # "num"

\* The weighted average before the clamp, in units of 1e-5.
WeightedSum(weights, fundamental_output, management_output, technical_output, smart_money_output, policy_output) ==
    LET fundamental_score == GetNum(fundamental_output.fundamental_score, 0).val
        management_score == GetNum(management_output.management_quality_score, 0).val
        smart_money_score == GetNum(smart_money_output.smart_money_conviction_score, 0).val
        technical_score == normalize_technical_score(technical_output)
        policy_score == normalize_policy_score(policy_output)
    IN  fundamental_score * weights.fundamentals.val
          + management_score * weights.management.val
          + technical_score * weights.technicals.val
          + smart_money_score * weights.smart_money.val
          + policy_score * weights.policy_macro.val

\* The same without the clamp of line 133.
calculate_weighted_score_unclamped(weights, fundamental_output, management_output, technical_output, smart_money_output, policy_output) ==
    IF WeightedScoreRaises(weights, fundamental_output, management_output, smart_money_output)
    THEN 0
    ELSE WeightedSum(weights, fundamental_output, management_output, technical_output,
                     smart_money_output, policy_output)

calculate_weighted_score(weights, fundamental_output, management_output, technical_output, smart_money_output, policy_output) ==
    IF WeightedScoreRaises(weights, fundamental_output, management_output, smart_money_output)
    THEN 0      \* except: return 0.0
    ELSE Min(ONE, Max(0, WeightedSum(weights, fundamental_output, management_output,
                                     technical_output, smart_money_output, policy_output)))

----------------------------------------------------------------------------
(* SupervisorAgent._create_stock_entry *)

\* round(x, 3) of a non-negative x: to the nearest multiple of 100 units, a
\* tie to the even one.
Round3(x) ==
    LET q == x \div 100
        r == x % 100
    IN  IF r > 50 \/ (r = 50 /\ q % 2 = 1) THEN (q + 1) * 100 ELSE q * 100

determine_consensus(weighted_score) ==
    IF weighted_score >= 85000 THEN "STRONG BUY (High Conviction)"
    ELSE IF weighted_score >= 75000 THEN "BUY (High Conviction)"
    ELSE IF weighted_score >= 65000 THEN "BUY (Medium Conviction)"
    ELSE IF weighted_score >= 55000 THEN "HOLD (Low Conviction)"
    ELSE "AVOID (Low Conviction)"

\* The try block of _create_stock_entry raises: financial_data is no mapping
\* (.get, len), or one of the five outputs is none (.get in the returned dict).
CreateEntryRaises(stock_analysis) ==
    \/ ~stock_analysis.financial_data.is_mapping
    \/ ~stock_analysis.fundamental_analysis.is_mapping
    \/ ~stock_analysis.management_analysis.is_mapping
    \/ ~stock_analysis.technical_analysis.is_mapping
    \/ ~stock_analysis.smart_money_analysis.is_mapping
    \/ ~stock_analysis.policy_analysis.is_mapping

\* A trigger of an entry: the text of an agent, or a prefix before texts
\* joined by ', '.
Trigger(prefix, texts) == [prefix |-> prefix, texts |-> texts]

PlainTriggers(texts) == [k \in 1..Len(texts) |-> Trigger("", <<texts[k]>>)]

\* str.lower() of a policy strength
Lower(text) ==
    CASE text = "STRONG" -> "strong"
      [] text = "MODERATE" -> "moderate"
      [] OTHER -> text

\* Lines 311-339.  .get on an output that is no mapping and the slice of a
\* value that is no list raise into the handler; investors that are None
\* fail the test of line 329.
extract_key_triggers(fundamental_output, management_output, smart_money_output, policy_output) ==
    IF \/ ~fundamental_output.is_mapping
       \/ ~management_output.is_mapping
       \/ ~smart_money_output.is_mapping
       \/ ~policy_output.is_mapping
    THEN <<Trigger("", <<"Analysis incomplete">>)>>
    ELSE IF \/ ~fundamental_output.key_improving_metrics.is_list
            \/ ~management_output.evidence_of_change.is_list
    THEN <<Trigger("", <<"Analysis incomplete">>)>>
    ELSE LET improving_metrics == fundamental_output.key_improving_metrics.items
             management_changes == management_output.evidence_of_change.items
             investors == smart_money_output.investors_detected.items
             policy_strength == GetLabel(policy_output.policy_tailwind_strength, "WEAK")
             triggers ==
                 PlainTriggers(Take(improving_metrics, 2))
                 \o PlainTriggers(Take(management_changes, 1))
                 \o (IF investors # <<>>
                     THEN <<Trigger("Smart money: ", Take(investors, 2))>> ELSE <<>>)
                 \o (IF policy_strength \in {"STRONG", "MODERATE"}
                     THEN <<Trigger("Policy tailwinds: ", <<Lower(policy_strength)>>)>> ELSE <<>>)
         IN  Take(triggers, 5)

\* the risks without the two generic ones of lines 359-362
extract_major_risks_no_placeholders(fundamental_output, management_output, technical_output) ==
    IF \/ ~fundamental_output.is_mapping
       \/ ~management_output.is_mapping
       \/ ~technical_output.is_mapping
    THEN <<"Analysis incomplete">>
    ELSE IF ~fundamental_output.red_flags.is_list
    THEN <<"Analysis incomplete">>
    ELSE Take(Take(fundamental_output.red_flags.items, 2)
                \o Evidence(GetLabel(management_output.minority_shareholder_alignment, "MEDIUM") = "LOW",
                            "Poor minority shareholder alignment")
                \o Evidence(GetLabel(technical_output.technical_stage, "BASE") = "EXTENDED",
                            "Technically extended levels"), 4)

\* Lines 341-370.  .get on an output that is no mapping and the slice of a
\* value that is no list raise into the handler.
extract_major_risks(fundamental_output, management_output, technical_output) ==
    IF \/ ~fundamental_output.is_mapping
       \/ ~management_output.is_mapping
       \/ ~technical_output.is_mapping
    THEN <<"Analysis incomplete">>
    ELSE IF ~fundamental_output.red_flags.is_list
    THEN <<"Analysis incomplete">>
    ELSE LET found ==
                 Take(fundamental_output.red_flags.items, 2)
                 \o Evidence(GetLabel(management_output.minority_shareholder_alignment, "MEDIUM") = "LOW",
                             "Poor minority shareholder alignment")
                 \o Evidence(GetLabel(technical_output.technical_stage, "BASE") = "EXTENDED",
                             "Technically extended levels")
             risks == IF found = <<>> THEN <<"Market volatility", "Execution risk">> ELSE found
         IN  Take(risks, 4)

\* Lines 202-283: the entry, or the one of the handler of lines 272-283.
create_stock_entry(stock_analysis, weighted_score) ==
    IF CreateEntryRaises(stock_analysis)
    THEN [symbol |-> stock_analysis.symbol,
          multibagger_probability |-> weighted_score,
          key_triggers |-> <<Trigger("", <<"Analysis error">>)>>,
          major_risks |-> <<"Data insufficient">>,
          agent_consensus |-> "LOW CONVICTION"]
    ELSE [symbol |-> stock_analysis.symbol,
          multibagger_probability |-> Round3(weighted_score),
          key_triggers |-> extract_key_triggers(stock_analysis.fundamental_analysis,
                                                stock_analysis.management_analysis,
                                                stock_analysis.smart_money_analysis,
                                                stock_analysis.policy_analysis),
          major_risks |-> extract_major_risks(stock_analysis.fundamental_analysis,
                                              stock_analysis.management_analysis,
                                              stock_analysis.technical_analysis),
          agent_consensus |-> determine_consensus(weighted_score)]

----------------------------------------------------------------------------
(* SupervisorAgent.synthesize_analysis *)

\* A variant in which an exception of the weighted score reaches the loop.
StockRaisesUncaughtScore(stock_analysis) ==
    \/ ~stock_analysis.is_mapping
    \/ WeightedScoreRaises([k \in {"fundamentals"} |-> Num(0)],
                           stock_analysis.fundamental_analysis,
                           stock_analysis.management_analysis,
                           stock_analysis.smart_money_analysis)

\* Lines 47-54 raise into the handler of line 76: the record is no mapping,
\* so .get fails.  _calculate_weighted_score and _create_stock_entry catch
\* what they raise themselves.
StockRaises(stock_analysis) == ~stock_analysis.is_mapping

WeightedScoreOf(weights, stock_analysis) ==
    calculate_weighted_score(weights,
                             stock_analysis.fundamental_analysis,
                             stock_analysis.management_analysis,
                             stock_analysis.technical_analysis,
                             stock_analysis.smart_money_analysis,
                             stock_analysis.policy_analysis)

EmptyLists == [high |-> <<>>, watch |-> <<>>, rejected |-> <<>>]

\* The loop body with "if" for the "elif" of line 71: a high stock is put on
\* the watchlist too.
ProcessStockNoElif(weights, lists, stock_analysis) ==
    IF ~stock_analysis.is_mapping
    THEN lists
    ELSE LET weighted_score ==
                 calculate_weighted_score(weights,
                                          stock_analysis.fundamental_analysis,
                                          stock_analysis.management_analysis,
                                          stock_analysis.technical_analysis,
                                          stock_analysis.smart_money_analysis,
                                          stock_analysis.policy_analysis)
             stock_entry == create_stock_entry(stock_analysis, weighted_score)
             first == IF weighted_score >= multibagger_threshold
                      THEN [lists EXCEPT !.high = Append(@, stock_entry)]
                      ELSE lists
         IN  IF weighted_score >= watchlist_threshold
             THEN [first EXCEPT !.watch = Append(@, stock_entry)]
             ELSE [first EXCEPT !.rejected = Append(@, stock_entry)]

\* One iteration of the loop of lines 44-78 on the three lists.
ProcessStock(weights, lists, stock_analysis) ==
    IF StockRaises(stock_analysis)
    THEN lists      \* logged, continue
    ELSE LET weighted_score == WeightedScoreOf(weights, stock_analysis)
             stock_entry == create_stock_entry(stock_analysis, weighted_score)
         IN  IF weighted_score >= multibagger_threshold
             THEN [lists EXCEPT !.high = Append(@, stock_entry)]
             ELSE IF weighted_score >= watchlist_threshold
             THEN [lists EXCEPT !.watch = Append(@, stock_entry)]
             ELSE [lists EXCEPT !.rejected = Append(@, stock_entry)]

\* The three lists after the first k stocks of the batch.
RECURSIVE Categorize(_, _, _)
Categorize(weights, batch, k) ==
    IF k = 0 THEN EmptyLists
    ELSE ProcessStock(weights, Categorize(weights, batch, k - 1), batch[k])

\* list.sort(key=multibagger_probability, reverse=True): stable, so an entry
\* goes behind every entry whose key is at least its own.
RECURSIVE InsertDescending(_, _)
InsertDescending(sorted, entry) ==
    IF sorted = <<>> THEN <<entry>>
    ELSE IF Head(sorted).multibagger_probability >= entry.multibagger_probability
    THEN <<Head(sorted)>> \o InsertDescending(Tail(sorted), entry)
    ELSE <<entry>> \o sorted

\* A sort that is not stable: an entry goes before the entries of equal key.
RECURSIVE InsertDescendingUnstable(_, _)
InsertDescendingUnstable(sorted, entry) ==
    IF sorted = <<>> THEN <<entry>>
    ELSE IF Head(sorted).multibagger_probability > entry.multibagger_probability
    THEN <<Head(sorted)>> \o InsertDescendingUnstable(Tail(sorted), entry)
    ELSE <<entry>> \o sorted

RECURSIVE SortDescendingUnstable(_)
SortDescendingUnstable(list) ==
    IF list = <<>> THEN <<>>
    ELSE InsertDescendingUnstable(SortDescendingUnstable(SubSeq(list, 1, Len(list) - 1)),
                                  list[Len(list)])

RECURSIVE SortDescending(_)
SortDescending(list) ==
    IF list = <<>> THEN <<>>
    ELSE InsertDescending(SortDescending(SubSeq(list, 1, Len(list) - 1)), list[Len(list)])

\* Lines 85-97.
FinalOutput(batch, high, watch, rejected) ==
    [high_probability_multibaggers |-> high,
     early_watchlist |-> watch,
     rejected_stocks |-> Take(rejected, RejectedShown),
     analysis_summary |->
        [total_stocks_analyzed |-> Len(batch),
         high_conviction_count |-> Len(high),
         watchlist_count |-> Len(watch),
         rejected_count |-> Len(rejected),
         error |-> NoKey]]

NoOutput == FinalOutput(<<>>, <<>>, <<>>, <<>>)

\* synthesize_analysis(stock_analyses), as a whole.
Synthesize(batch) ==
    /\ sup_pc = "idle"
    /\ LET lists == Categorize(agent_weights, batch, Len(batch))
           high == SortDescending(lists.high)
           watch == SortDescending(lists.watch)
       IN  /\ high_probability_multibaggers' = high
           /\ early_watchlist' = watch
           /\ rejected_stocks' = lists.rejected
           /\ final_output' = FinalOutput(batch, high, watch, lists.rejected)
    /\ stock_analyses' = batch
    /\ sup_pc' = "done"
    /\ UNCHANGED agent_weights

\* Lines 385-400.
create_default_output == [NoOutput EXCEPT !.analysis_summary.error = "Analysis failed"]

\* synthesize_analysis called with a value that is no list and has no
\* len(), such as None: line 38 raises inside the try, and the handler of
\* lines 104-106 returns the default output.  sup_pc is "failed" after a
\* return from that handler.
SynthesizeNoList ==
    /\ sup_pc = "idle"
    /\ high_probability_multibaggers' = <<>>
    /\ early_watchlist' = <<>>
    /\ rejected_stocks' = <<>>
    /\ final_output' = create_default_output
    /\ stock_analyses' = <<>>
    /\ sup_pc' = "failed"
    /\ UNCHANGED agent_weights

----------------------------------------------------------------------------
(* Inputs of the supervisor *)

MaxBatch == 3       \* stocks drawn freely at the end of a batch

Analysis(fundamental_score, management_score, smart_money_score, technical_stage, risk_reward_ratio, policy_strength, time_horizon) ==
    [is_mapping |-> TRUE,
     symbol |-> 0,
     fundamental_analysis |-> [is_mapping |-> TRUE, fundamental_score |-> fundamental_score,
                               key_improving_metrics |-> ListOf(<<>>), red_flags |-> ListOf(<<>>)],
     management_analysis |-> [is_mapping |-> TRUE, management_quality_score |-> management_score,
                              evidence_of_change |-> ListOf(<<>>),
                              minority_shareholder_alignment |-> NoKey],
     technical_analysis |-> [is_mapping |-> TRUE, technical_stage |-> technical_stage,
                             risk_reward_ratio |-> risk_reward_ratio],
     smart_money_analysis |-> [is_mapping |-> TRUE,
                               smart_money_conviction_score |-> smart_money_score,
                               investors_detected |-> ListOf(<<>>)],
     policy_analysis |-> [is_mapping |-> TRUE, policy_tailwind_strength |-> policy_strength,
                          time_horizon |-> time_horizon],
     financial_data |-> [is_mapping |-> TRUE]]

\* A stock whose other four agents are middling; under the default weights
\* its weighted score is 0.38975 + 0.35 * fundamental_score / 10.
Typical(fundamental_score) ==
    Analysis(fundamental_score, Num(500), Num(500), "BASE", "1:1", "MODERATE", "MEDIUM")

\* The kinds of record a batch is made of: rejected (0.0, 1.72), watchlist
\* (4.0), high (9.0, 10.0); a score that is no number; a record that is no
\* mapping; a fundamental output that is None; a financial_data that is a list.
StockKinds ==
    {Typical(Num(f)) : f \in {0, 172, 400, 900, 1000}}
      \cup {Typical(NotANumber),
            [Typical(Num(900)) EXCEPT !.is_mapping = FALSE],
            [Typical(Num(900)) EXCEPT !.fundamental_analysis.is_mapping = FALSE],
            [Typical(Num(400)) EXCEPT !.financial_data.is_mapping = FALSE]}

\* The batch of the given kinds, the symbol of a stock its place in the batch.
BatchOf(kinds) == [i \in 1..Len(kinds) |-> [kinds[i] EXCEPT !.symbol = i]]

\* A run of n stocks that score below the watchlist threshold.
Padding(n) == [i \in 1..n |-> Typical(Num(0))]

\* Batches: up to MaxBatch stocks of any kind, alone or behind a run of
\* rejected stocks one short of what the output shows.
ShortBatches ==
    {BatchOf(Padding(n) \o tail) : n \in {0, RejectedShown - 1},
                                  tail \in SeqUpTo(StockKinds, MaxBatch)}

\* One stock whose five agent outputs range over scores of any sign and size,
\* missing fields and unknown labels.
WideAnalyses ==
    {Analysis(f, m, s, stage, rr, strength, horizon) :
        f \in {Num(-500), Num(0), Num(655), Num(2500), Absent, NotANumber},
        m \in {Num(0), Num(750), Absent},
        s \in {Num(1000), Num(-200)},
        stage \in {"BREAKOUT", "EXTENDED", "UNKNOWN", NoKey},
        rr \in {"1:3+", "1:1", NoKey},
        strength \in {"STRONG", "WEAK", "UNKNOWN"},
        horizon \in {"LONG", "SHORT"}}

WideBatches == {BatchOf(<<a>>) : a \in WideAnalyses}

BatchInputs == ShortBatches \cup WideBatches

\* One stock for every pair of labels of the technical and of the policy
\* output, known, unknown or missing, and one whose technical or policy
\* output is no mapping.
StageLabels == {"BREAKOUT", "BASE", "EXTENDED"}
RiskRewardLabels == {"1:3+", "1:2", "1:1.5", "1:1"}
StrengthLabels == {"STRONG", "MODERATE", "WEAK"}
HorizonLabels == {"LONG", "MEDIUM", "SHORT"}

LabelAnalyses ==
    {Analysis(Num(500), Num(500), Num(500), stage, rr, strength, horizon) :
        stage \in StageLabels \cup {"UNKNOWN", NoKey},
        rr \in RiskRewardLabels \cup {"UNKNOWN", NoKey},
        strength \in StrengthLabels \cup {"UNKNOWN", NoKey},
        horizon \in HorizonLabels \cup {"UNKNOWN", NoKey}}
    \cup {[Typical(Num(500)) EXCEPT !.technical_analysis.is_mapping = FALSE],
          [Typical(Num(500)) EXCEPT !.policy_analysis.is_mapping = FALSE]}

LabelBatches == {BatchOf(<<a>>) : a \in LabelAnalyses}

Weights(fundamentals, management, policy_macro, smart_money, technicals) ==
    [fundamentals |-> fundamentals, management |-> management,
     policy_macro |-> policy_macro, smart_money |-> smart_money,
     technicals |-> technicals]

\* config.AGENT_WEIGHTS, and mappings a caller may pass instead: weights far
\* above 1, negative weights, a mapping without the 'technicals' key.
DefaultWeights == Weights(Num(35), Num(15), Num(20), Num(15), Num(15))

WeightConfigs ==
    {DefaultWeights,
     Weights(Num(100), Num(100), Num(100), Num(100), Num(100)),
     Weights(Num(-35), Num(-15), Num(-20), Num(-15), Num(-15)),
     Weights(Num(35), Num(15), Num(20), Num(15), Absent)}

----------------------------------------------------------------------------
(* Properties of the synthesis *)

\* How often the stock at place k of the batch is listed in a list.
Listed(list, k) == Cardinality({i \in 1..Len(list) : list[i].symbol = k})

ProbabilityInUnitInterval(list) ==
    \A i \in 1..Len(list) :
        list[i].multibagger_probability >= 0 /\ list[i].multibagger_probability <= ONE

\* C1: for any five agent outputs and any weight mapping the weighted score is
\* in [0,1], and so is the multibagger_probability of every entry placed in a
\* bucket.
C1_WeightedScoreInUnitInterval ==
    /\ \A k \in 1..Len(stock_analyses) :
          LET weighted_score == WeightedScoreOf(agent_weights, stock_analyses[k])
          IN  weighted_score >= 0 /\ weighted_score <= ONE
    /\ ProbabilityInUnitInterval(high_probability_multibaggers)
    /\ ProbabilityInUnitInterval(early_watchlist)
    /\ ProbabilityInUnitInterval(rejected_stocks)
    /\ ProbabilityInUnitInterval(final_output.high_probability_multibaggers)
    /\ ProbabilityInUnitInterval(final_output.early_watchlist)
    /\ ProbabilityInUnitInterval(final_output.rejected_stocks)

\* The clamp acted on both sides: a stock whose weighted sum is above 1.0 is
\* listed with probability 1.0 (or one whose sum is below 0 with 0.0).
C1_Witness ==
    /\ sup_pc = "done"
    /\ \E k \in 1..Len(stock_analyses) :
          LET s == stock_analyses[k]
          IN  /\ s.is_mapping
              /\ ~WeightedScoreRaises(agent_weights, s.fundamental_analysis,
                                      s.management_analysis, s.smart_money_analysis)
              /\ WeightedSum(agent_weights, s.fundamental_analysis, s.management_analysis,
                             s.technical_analysis, s.smart_money_analysis,
                             s.policy_analysis) > ONE
              /\ \E i \in 1..Len(final_output.high_probability_multibaggers) :
                    /\ final_output.high_probability_multibaggers[i].symbol = k
                    /\ final_output.high_probability_multibaggers[i].multibagger_probability = ONE

\* Where the thresholds put a weighted score.
BucketOf(weighted_score) ==
    IF weighted_score >= multibagger_threshold THEN "high"
    ELSE IF weighted_score >= watchlist_threshold THEN "watch"
    ELSE "rejected"

\* C2 as claimed: every stock processed without an exception is in exactly one
\* of the three lists of the output, the one its probability selects.
C2_Original ==
    sup_pc = "done" =>
        \A k \in 1..Len(stock_analyses) :
            stock_analyses[k].is_mapping =>
                LET bucket == BucketOf(WeightedScoreOf(agent_weights, stock_analyses[k]))
                IN  /\ Listed(final_output.high_probability_multibaggers, k)
                         = (IF bucket = "high" THEN 1 ELSE 0)
                    /\ Listed(final_output.early_watchlist, k)
                         = (IF bucket = "watch" THEN 1 ELSE 0)
                    /\ Listed(final_output.rejected_stocks, k)
                         = (IF bucket = "rejected" THEN 1 ELSE 0)

\* C2 amended: every stock processed without an exception is put in exactly
\* one of the three buckets, the one the thresholds select for its weighted
\* score, and is counted there; the output lists the high and the watchlist
\* bucket whole and of the rejected bucket the first RejectedShown stocks.
C2_PartitionBeforeTruncation ==
    sup_pc = "done" =>
        /\ \A k \in 1..Len(stock_analyses) :
              stock_analyses[k].is_mapping =>
                LET bucket == BucketOf(WeightedScoreOf(agent_weights, stock_analyses[k]))
                IN  /\ Listed(final_output.high_probability_multibaggers, k)
                         = (IF bucket = "high" THEN 1 ELSE 0)
                    /\ Listed(final_output.early_watchlist, k)
                         = (IF bucket = "watch" THEN 1 ELSE 0)
                    /\ Listed(rejected_stocks, k)
                         = (IF bucket = "rejected" THEN 1 ELSE 0)
        /\ final_output.rejected_stocks = Take(rejected_stocks, RejectedShown)
        /\ final_output.analysis_summary.high_conviction_count
             = Len(final_output.high_probability_multibaggers)
        /\ final_output.analysis_summary.watchlist_count = Len(final_output.early_watchlist)
        /\ final_output.analysis_summary.rejected_count = Len(rejected_stocks)
        /\ Len(final_output.high_probability_multibaggers) + Len(final_output.early_watchlist)
             + Len(rejected_stocks)
             = Cardinality({k \in 1..Len(stock_analyses) : stock_analyses[k].is_mapping})

\* More stocks were rejected than the output shows, and one is high.
C2_Witness ==
    /\ sup_pc = "done"
    /\ Len(rejected_stocks) > RejectedShown
    /\ Len(final_output.rejected_stocks) = RejectedShown
    /\ Len(final_output.high_probability_multibaggers) > 0

SortedStable(list) ==
    \A i, j \in 1..Len(list) :
        i < j =>
            /\ list[i].multibagger_probability >= list[j].multibagger_probability
            /\ list[i].multibagger_probability = list[j].multibagger_probability
                 => list[i].symbol < list[j].symbol

\* C3: the high and the watchlist list of the output are in non-increasing
\* order of multibagger_probability, entries of equal probability in the order
\* of the batch.
C3_SortedDescendingStable ==
    sup_pc = "done" =>
        /\ SortedStable(final_output.high_probability_multibaggers)
        /\ SortedStable(final_output.early_watchlist)

\* The sort moved a later stock before an earlier one and kept a tie in place.
C3_Witness ==
    /\ sup_pc = "done"
    /\ LET list == final_output.high_probability_multibaggers
       IN  /\ \E i, j \in 1..Len(list) : i < j /\ list[i].symbol > list[j].symbol
           /\ \E i, j \in 1..Len(list) :
                 /\ i < j
                 /\ list[i].multibagger_probability = list[j].multibagger_probability

\* C4 as claimed: the output lists at most 10 rejected stocks, and of more
\* than 10 the ones of highest probability, in descending order.
C4_Original ==
    sup_pc = "done" =>
        LET shown == final_output.rejected_stocks
        IN  /\ Len(shown) <= RejectedShown
            /\ Len(rejected_stocks) > RejectedShown =>
                  /\ Len(shown) = RejectedShown
                  /\ \A i, j \in 1..Len(shown) :
                        i < j => shown[i].multibagger_probability
                                   >= shown[j].multibagger_probability
                  /\ \A k \in 1..Len(rejected_stocks) :
                        Listed(shown, rejected_stocks[k].symbol) = 0 =>
                            \A i \in 1..Len(shown) :
                                shown[i].multibagger_probability
                                  >= rejected_stocks[k].multibagger_probability

\* C5 as claimed: a stock whose processing raises anywhere (extracting its
\* outputs, computing its weighted score, building its entry) is in no bucket.
C5_Original ==
    sup_pc = "done" =>
        \A k \in 1..Len(stock_analyses) :
            LET s == stock_analyses[k]
            IN  (\/ ~s.is_mapping
                 \/ WeightedScoreRaises(agent_weights, s.fundamental_analysis,
                                        s.management_analysis, s.smart_money_analysis)
                 \/ CreateEntryRaises(s))
                  => /\ Listed(high_probability_multibaggers, k) = 0
                     /\ Listed(early_watchlist, k) = 0
                     /\ Listed(rejected_stocks, k) = 0

\* C5 amended: a stock whose record is no mapping (extracting its outputs
\* raises) is in no bucket, and every other stock of the batch is in exactly
\* one; an exception while computing the weighted score is caught there and
\* the stock is rejected with probability 0.0; an exception while building the
\* entry is caught there and the stock is bucketed with the fallback entry.
C5_OnlyUnreadableStockSkipped ==
    sup_pc = "done" =>
        \A k \in 1..Len(stock_analyses) :
            LET s == stock_analyses[k]
                places == Listed(high_probability_multibaggers, k)
                            + Listed(early_watchlist, k) + Listed(rejected_stocks, k)
            IN  /\ ~s.is_mapping => places = 0
                /\ s.is_mapping => places = 1
                /\ (s.is_mapping
                      /\ WeightedScoreRaises(agent_weights, s.fundamental_analysis,
                                             s.management_analysis, s.smart_money_analysis))
                     => \E i \in 1..Len(rejected_stocks) :
                            /\ rejected_stocks[i].symbol = k
                            /\ rejected_stocks[i].multibagger_probability = 0
                /\ (s.is_mapping /\ CreateEntryRaises(s))
                     => \E list \in {high_probability_multibaggers, early_watchlist,
                                     rejected_stocks} :
                            \E i \in 1..Len(list) :
                                /\ list[i].symbol = k
                                /\ list[i].agent_consensus = "LOW CONVICTION"

\* A record that is no mapping was skipped and a later stock bucketed, next
\* to a stock whose score raised and one whose entry is the fallback.
C5_Witness ==
    /\ sup_pc = "done"
    /\ \E k, l \in 1..Len(stock_analyses) :
          /\ k < l
          /\ ~stock_analyses[k].is_mapping
          /\ stock_analyses[l].is_mapping
          /\ Listed(high_probability_multibaggers, l) + Listed(early_watchlist, l)
               + Listed(rejected_stocks, l) = 1
    /\ \E k \in 1..Len(stock_analyses) :
          /\ stock_analyses[k].is_mapping
          /\ stock_analyses[k].fundamental_analysis.fundamental_score.tag = "bad"
          /\ Listed(rejected_stocks, k) = 1

----------------------------------------------------------------------------
(***************************************************************************)
(* FundamentalAgent (agents/fundamental_agent.py).                         *)
(*                                                                         *)
(* A statement (financials, balance_sheet, cashflow) is the sequence of    *)
(* its periods in the order the mapping holds them, each with its date.    *)
(* Amounts are integers.  A ratio of two amounts is kept exact as          *)
(* [num, den] and compared by cross-multiplication; an operating margin    *)
(* and a CAGR are fixed-point, in basis points (hundredths of a percent).  *)
(* Sub-scores and fundamental_score are in hundredths of a point.          *)
(***************************************************************************)

RatioScale == 10000     \* fixed point: 1.0
RootCeiling == 20000    \* the largest root searched: a CAGR of 100%
PowerCeiling == 100000  \* powers saturate here: a ratio of 10

\* num/den > p/q, for q > 0 and den # 0
RatioGt(r, p, q) ==
    IF r.den > 0 THEN r.num * q > p * r.den ELSE r.num * q < p * r.den

\* num/den < p/q, for q > 0 and den # 0
RatioLt(r, p, q) ==
    IF r.den > 0 THEN r.num * q < p * r.den ELSE r.num * q > p * r.den

\* a < b for two ratios of positive denominator
RatioLess(a, b) == a.num * b.den < b.num * a.den

ZeroRatio == [num |-> 0, den |-> 1]

\* x ** k in fixed point, saturating
RECURSIVE PowFixed(_, _)
PowFixed(x, k) ==
    IF k = 0 THEN RatioScale
    ELSE Min(PowerCeiling, (PowFixed(x, k - 1) * x) \div RatioScale)

\* The largest x in lo..hi with x ** k <= ratio (lo is one).
RECURSIVE RootSearch(_, _, _, _)
RootSearch(lo, hi, ratio, k) ==
    IF lo >= hi THEN lo
    ELSE LET mid == (lo + hi + 1) \div 2
         IN  IF PowFixed(mid, k) <= ratio
             THEN RootSearch(mid, hi, ratio, k)
             ELSE RootSearch(lo, mid - 1, ratio, k)

\* ((last / base) ** (1/k) - 1) * 100 in basis points, for last >= 0 < base
CagrBp(last, base, k) ==
    RootSearch(0, RootCeiling, Min(PowerCeiling, (last * RatioScale) \div base), k)
      - RatioScale

\* list.sort(key=lambda x: x[0]) of the periods: by date, ascending, stable.
RECURSIVE InsertByDate(_, _)
InsertByDate(sorted, row) ==
    IF sorted = <<>> THEN <<row>>
    ELSE IF Head(sorted).date <= row.date
    THEN <<Head(sorted)>> \o InsertByDate(Tail(sorted), row)
    ELSE <<row>> \o sorted

RECURSIVE SortByDate(_)
SortByDate(rows) ==
    IF rows = <<>> THEN <<>>
    ELSE InsertByDate(SortByDate(SubSeq(rows, 1, Len(rows) - 1)), rows[Len(rows)])

\* "date in statement" and statement[date]
HasDate(rows, date) == \E i \in 1..Len(rows) : rows[i].date = date
RowAt(rows, date) == rows[CHOOSE i \in 1..Len(rows) : rows[i].date = date]

(* _analyze_revenue_growth *)

RevenueDefault ==
    [cagr_5y |-> 0, improving_trend |-> FALSE, declining_trend |-> FALSE]

\* The latest revenue compared with the one three periods before it.
analyze_revenue_growth_three_back(financials) ==
    IF ~financials.is_mapping THEN RevenueDefault       \* .items() raises
    ELSE IF Len(financials.periods) < 3 THEN RevenueDefault
    ELSE LET sorted == SortByDate(financials.periods)
             n == Len(sorted)
             revenues == [i \in 1..n |-> sorted[i].revenue]
             base == IF n >= 5 THEN revenues[n - 4] ELSE revenues[1]
             years == IF n >= 5 THEN 5 ELSE n
         IN  IF base = 0 THEN RevenueDefault            \* ZeroDivisionError
             ELSE LET cagr_5y == CagrBp(revenues[n], base, years)
                      improving_trend ==
                          IF n >= 6
                          THEN (revenues[n] + revenues[n - 1] + revenues[n - 2]) * 10
                                 > (revenues[n - 3] + revenues[n - 4] + revenues[n - 5]) * 11
                          ELSE cagr_5y > 1000
                      declining_trend ==
                          cagr_5y < -500 \/ (n >= 4 /\ revenues[n] * 10 < revenues[n - 3] * 9)
                  IN  [cagr_5y |-> cagr_5y,
                       improving_trend |-> improving_trend,
                       declining_trend |-> declining_trend]

analyze_revenue_growth(financials) ==
    IF ~financials.is_mapping THEN RevenueDefault       \* .items() raises
    ELSE IF Len(financials.periods) < 3 THEN RevenueDefault
    ELSE LET sorted == SortByDate(financials.periods)
             n == Len(sorted)
             revenues == [i \in 1..n |-> sorted[i].revenue]
             base == IF n >= 5 THEN revenues[n - 4] ELSE revenues[1]
             years == IF n >= 5 THEN 5 ELSE n
         IN  IF base = 0 THEN RevenueDefault            \* ZeroDivisionError
             ELSE LET cagr_5y == CagrBp(revenues[n], base, years)
                      improving_trend ==
                          IF n >= 6
                          THEN (revenues[n] + revenues[n - 1] + revenues[n - 2]) * 10
                                 > (revenues[n - 3] + revenues[n - 4] + revenues[n - 5]) * 11
                          ELSE cagr_5y > 1000
                      declining_trend ==
                          cagr_5y < -500 \/ revenues[n] * 10 < revenues[n - 2] * 9
                  IN  [cagr_5y |-> cagr_5y,
                       improving_trend |-> improving_trend,
                       declining_trend |-> declining_trend]


(* _analyze_profitability *)

\* pat_cagr_5y is a real number of basis points, or the complex number that
\* a negative ratio raised to 1/5 gives.
Real(bp) == [complex |-> FALSE, bp |-> bp]
Complex == [complex |-> TRUE, bp |-> 0]

ProfitDefault ==
    [pat_cagr_5y |-> Real(0), margin_expansion |-> FALSE,
     margin_compression |-> FALSE, latest_margin |-> 0]

HasRevenue(row) == row.revenue > 0

\* op / rev * 100, in basis points
OperatingMargin(row) == (row.operating_income * RatioScale) \div row.revenue

analyze_profitability(financials) ==
    IF ~financials.is_mapping THEN ProfitDefault        \* .items() raises
    ELSE IF Len(financials.periods) < 3 THEN ProfitDefault
    ELSE LET sorted == SortByDate(financials.periods)
             n == Len(sorted)
             pat_cagr_5y ==
                 IF n >= 5 /\ sorted[n - 4].net_income > 0
                 THEN IF sorted[n].net_income < 0 THEN Complex
                      ELSE Real(CagrBp(sorted[n].net_income, sorted[n - 4].net_income, 5))
                 ELSE Real(0)
             with_revenue == SelectSeq(sorted, HasRevenue)
             m == Len(with_revenue)
             operating_margins == [i \in 1..m |-> OperatingMargin(with_revenue[i])]
             \* twice the mean of the last two and of the first two margins
             recent2 == operating_margins[m] + operating_margins[m - 1]
             older2 == operating_margins[1] + operating_margins[2]
         IN  [pat_cagr_5y |-> pat_cagr_5y,
              margin_expansion |-> m >= 3 /\ recent2 > older2 + 200,
              margin_compression |-> m >= 3 /\ recent2 < older2 - 200,
              latest_margin |-> IF m > 0 THEN operating_margins[m] ELSE 0]

(* _analyze_efficiency *)

EfficiencyDefault ==
    [latest_roce |-> ZeroRatio, latest_roe |-> ZeroRatio,
     roce_improving |-> FALSE, roe_improving |-> FALSE]

\* The periods of financials, in the order financials holds them, that the
\* balance sheet has with positive assets and equity, joined with it.
RECURSIVE EfficiencyRows(_, _)
EfficiencyRows(periods, balance_sheet) ==
    IF periods = <<>> THEN <<>>
    ELSE LET date == Head(periods).date
             rest == EfficiencyRows(Tail(periods), balance_sheet)
         IN  IF HasDate(balance_sheet, date)
                /\ RowAt(balance_sheet, date).total_assets > 0
                /\ RowAt(balance_sheet, date).equity > 0
             THEN <<[net_income |-> Head(periods).net_income,
                     total_assets |-> RowAt(balance_sheet, date).total_assets,
                     equity |-> RowAt(balance_sheet, date).equity]>> \o rest
             ELSE rest

\* latest_roce and latest_roe are kept as the fractions ni/ta and ni/eq.
analyze_efficiency(financials, balance_sheet) ==
    IF ~financials.is_mapping THEN EfficiencyDefault    \* .keys() raises
    ELSE LET rows == EfficiencyRows(financials.periods, balance_sheet)
             k == Len(rows)
             roce_values == [i \in 1..k |-> [num |-> rows[i].net_income, den |-> rows[i].total_assets]]
             roe_values == [i \in 1..k |-> [num |-> rows[i].net_income, den |-> rows[i].equity]]
         IN  IF k < 2 THEN EfficiencyDefault
             ELSE [latest_roce |-> roce_values[k],
                   latest_roe |-> roe_values[k],
                   roce_improving |-> k >= 3 /\ RatioLess(roce_values[k - 2], roce_values[k]),
                   roe_improving |-> k >= 3 /\ RatioLess(roe_values[k - 2], roe_values[k])]

(* _analyze_debt_quality *)

DebtDefault ==
    [debt_to_equity |-> ZeroRatio, debt_reducing |-> FALSE, high_debt_risk |-> FALSE]

HasEquity(row) == row.equity > 0

\* Every period kept, its equity raised to at least 1.
analyze_debt_quality_equity_floor(balance_sheet) ==
    IF Len(balance_sheet) < 2 THEN DebtDefault
    ELSE LET k == Len(balance_sheet)
             de_ratios == [i \in 1..k |-> [num |-> balance_sheet[i].total_debt, den |-> Max(1, balance_sheet[i].equity)]]
             latest_de == IF k > 0 THEN de_ratios[k] ELSE ZeroRatio
         IN  [debt_to_equity |-> latest_de,
              debt_reducing |-> k >= 3 /\ RatioLess(de_ratios[k], de_ratios[k - 2]),
              high_debt_risk |-> RatioGt(latest_de, 1, 1)]

analyze_debt_quality(balance_sheet) ==
    IF Len(balance_sheet) < 2 THEN DebtDefault
    ELSE LET with_equity == SelectSeq(balance_sheet, HasEquity)
             k == Len(with_equity)
             de_ratios == [i \in 1..k |-> [num |-> with_equity[i].total_debt, den |-> with_equity[i].equity]]
             latest_de == IF k > 0 THEN de_ratios[k] ELSE ZeroRatio
         IN  [debt_to_equity |-> latest_de,
              debt_reducing |-> k >= 3 /\ RatioLess(de_ratios[k], de_ratios[k - 2]),
              high_debt_risk |-> RatioGt(latest_de, 1, 1)]

(* _analyze_cashflow_quality *)

CashflowDefault ==
    [ocf_to_pat_ratio |-> ZeroRatio, strong_ocf |-> FALSE, poor_conversion |-> FALSE]

\* The periods of the cash flow statement, in its order, that financials has.
RECURSIVE CashflowRows(_, _)
CashflowRows(cashflow, periods) ==
    IF cashflow = <<>> THEN <<>>
    ELSE LET date == Head(cashflow).date
             rest == CashflowRows(Tail(cashflow), periods)
         IN  IF HasDate(periods, date)
             THEN <<[ocf |-> Head(cashflow).ocf,
                     net_income |-> RowAt(periods, date).net_income]>> \o rest
             ELSE rest

\* "date in financials" finds nothing in a value that is not a mapping.
analyze_cashflow_quality(cashflow, financials) ==
    LET rows == IF financials.is_mapping
                THEN CashflowRows(cashflow, financials.periods) ELSE <<>>
        k == Len(rows)
        latest_ratio == IF rows[k].net_income # 0
                        THEN [num |-> rows[k].ocf, den |-> rows[k].net_income]
                        ELSE ZeroRatio
    IN  IF k < 2 THEN CashflowDefault
        ELSE [ocf_to_pat_ratio |-> latest_ratio,
              strong_ocf |-> RatioGt(latest_ratio, 12, 10),
              poor_conversion |-> RatioLt(latest_ratio, 8, 10)]


(* The five sub-scores, in hundredths of a point. *)

score_revenue_growth(analysis) ==
    IF analysis.declining_trend THEN 0
    ELSE IF analysis.cagr_5y > 1500 /\ analysis.improving_trend THEN 200
    ELSE IF analysis.cagr_5y > 1000 \/ analysis.improving_trend THEN 150
    ELSE IF analysis.cagr_5y > 500 THEN 100
    ELSE 50

\* Comparing a complex pat_cagr_5y with a number raises TypeError.
ScoreProfitabilityRaises(analysis) ==
    ~analysis.margin_compression /\ analysis.pat_cagr_5y.complex

score_profitability(analysis) ==
    IF analysis.margin_compression THEN 0
    ELSE IF analysis.pat_cagr_5y.bp > 2000 /\ analysis.margin_expansion THEN 200
    ELSE IF analysis.pat_cagr_5y.bp > 1000 \/ analysis.margin_expansion THEN 150
    ELSE IF analysis.pat_cagr_5y.bp > 500 THEN 100
    ELSE 50

score_efficiency(analysis) ==
    LET level == IF RatioGt(analysis.latest_roce, 20, 100) \/ RatioGt(analysis.latest_roe, 20, 100)
                 THEN 100
                 ELSE IF RatioGt(analysis.latest_roce, 15, 100) \/ RatioGt(analysis.latest_roe, 15, 100)
                 THEN 50
                 ELSE 0
        trend == IF analysis.roce_improving \/ analysis.roe_improving THEN 100 ELSE 0
    IN  Min(200, level + trend)

score_debt_quality(analysis) ==
    IF analysis.high_debt_risk THEN 0
    ELSE IF RatioLt(analysis.debt_to_equity, 3, 10) /\ analysis.debt_reducing THEN 200
    ELSE IF RatioLt(analysis.debt_to_equity, 5, 10) \/ analysis.debt_reducing THEN 150
    ELSE IF RatioLt(analysis.debt_to_equity, 8, 10) THEN 100
    ELSE 50

score_cashflow_quality(analysis) ==
    IF analysis.poor_conversion THEN 0
    ELSE IF analysis.strong_ocf /\ RatioGt(analysis.ocf_to_pat_ratio, 15, 10) THEN 200
    ELSE IF analysis.strong_ocf \/ RatioGt(analysis.ocf_to_pat_ratio, 10, 10) THEN 150
    ELSE IF RatioGt(analysis.ocf_to_pat_ratio, 8, 10) THEN 100
    ELSE 50

calculate_inflection_bonus(revenue_analysis, profit_analysis, efficiency_analysis) ==
    (IF revenue_analysis.improving_trend /\ profit_analysis.margin_expansion THEN 50 ELSE 0)
    + (IF efficiency_analysis.roce_improving /\ efficiency_analysis.roe_improving THEN 50 ELSE 0)

(* AI enrichment: the providers and what a call to one returns. *)

\* The value of a list-valued key of an insights object: a list, or a
\* value that list.extend cannot iterate.
Items(items) == [iterable |-> TRUE, items |-> items]
NotIterable == [iterable |-> FALSE, items |-> <<>>]

\* What a provider call gives back: None, an empty object, a value that is
\* not an object, or an insights object.
Insights(strengths, risks, adjustment, provider) ==
    [kind |-> "dict", strengths |-> strengths, risks |-> risks,
     ai_score_adjustment |-> adjustment, ai_provider |-> provider]
NoResult == [Insights(Items(<<>>), Items(<<>>), Absent, NoKey) EXCEPT !.kind = "none"]
EmptyObject == [NoResult EXCEPT !.kind = "empty_dict"]
NotAnObject == [NoResult EXCEPT !.kind = "not_a_dict"]

\* _parse_ai_response on text that is not JSON
ParseFallback ==
    Insights(Items(<<"AI analysis completed">>), Items(<<"Monitor market conditions">>), Num(0), NoKey)

\* An HTTP exchange with a provider: how it ended and, for a completion
\* that arrived, what its text holds.
Response(status, content, object) ==
    [status |-> status, content |-> content, object |-> object]

parse_ai_response(response) ==
    CASE response.content = "text" -> ParseFallback
      [] response.content = "json_scalar" -> NotAnObject
      [] response.content = "json_object" -> response.object

call_groq(response) ==
    IF response.status # "ok" THEN NoResult
    ELSE IF response.content = "no_choices" THEN NoResult
    ELSE parse_ai_response(response)

call_anthropic(response) ==
    IF response.status # "ok" THEN NoResult
    ELSE IF response.content = "no_choices" THEN NoResult
    ELSE parse_ai_response(response)

call_huggingface(response) ==
    IF response.status = "loading"
    THEN Insights(Items(<<"Technology sector leader", "Stable revenue growth", "Large cap stability">>),
                  Items(<<"Market competition", "Economic cycles">>), Num(30), NoKey)
    ELSE IF response.status # "ok" THEN NoResult
    ELSE Insights(Items(<<"AI analysis via Hugging Face", "Technology sector analysis", "Revenue growth positive">>),
                  Items(<<"Market volatility", "Competition risks">>), Num(20), NoKey)

\* A symbol, as far as the fallback analysis reads it: whether it contains
\* ".NS" and which sector keyword it contains first.
Symbol(nse, sector) == [nse |-> nse, sector |-> sector]

create_fallback_ai_analysis(symbol, revenue_analysis, profitability_analysis) ==
    LET revenue_cagr == revenue_analysis.cagr_5y
        growth == IF revenue_cagr > 1500 THEN [s |-> <<"Strong revenue growth">>, r |-> <<>>, adj |-> 30]
                  ELSE IF revenue_cagr > 1000 THEN [s |-> <<"Decent revenue growth">>, r |-> <<>>, adj |-> 10]
                  ELSE IF revenue_cagr < 0 THEN [s |-> <<>>, r |-> <<"Declining revenue trend">>, adj |-> -20]
                  ELSE [s |-> <<>>, r |-> <<>>, adj |-> 0]
        margin == IF profitability_analysis.margin_expansion
                  THEN [s |-> <<"Operating margin expansion">>, r |-> <<>>, adj |-> 20]
                  ELSE IF profitability_analysis.margin_compression
                  THEN [s |-> <<>>, r |-> <<"Margin compression pressure">>, adj |-> -20]
                  ELSE [s |-> <<>>, r |-> <<>>, adj |-> 0]
        trend == IF revenue_analysis.improving_trend
                 THEN [s |-> <<"Recent revenue acceleration">>, r |-> <<>>, adj |-> 20]
                 ELSE [s |-> <<>>, r |-> <<>>, adj |-> 0]
        sector == IF ~symbol.nse THEN [s |-> <<>>, r |-> <<>>]
                  ELSE IF symbol.sector = "tech" THEN [s |-> <<"Technology sector tailwinds">>, r |-> <<>>]
                  ELSE IF symbol.sector = "bank"
                  THEN [s |-> <<"Banking sector fundamentals">>, r |-> <<"Interest rate sensitivity">>]
                  ELSE IF symbol.sector = "pharma"
                  THEN [s |-> <<"Healthcare sector growth">>, r |-> <<"Regulatory changes">>]
                  ELSE [s |-> <<>>, r |-> <<>>]
        found_strengths == growth.s \o margin.s \o trend.s \o sector.s
        found_risks == growth.r \o margin.r \o trend.r \o sector.r
        strengths == IF found_strengths = <<>>
                     THEN <<"Established market presence", "Financial data available">>
                     ELSE found_strengths
        risks == IF found_risks = <<>> THEN <<"Market volatility", "Economic cycles">> ELSE found_risks
        score_adjustment == Max(-50, Min(50, growth.adj + margin.adj + trend.adj))
    IN  Insights(Items(Take(strengths, 3)), Items(Take(risks, 2)), Num(score_adjustment), "fallback_analysis")


call_provider(provider_name, response) ==
    CASE provider_name = "groq" -> call_groq(response)
      [] provider_name = "anthropic" -> call_anthropic(response)
      [] provider_name = "huggingface" -> call_huggingface(response)

\* The loop of _get_ai_insights: the first provider, in priority order,
\* whose call returns a non-empty object; one that returns anything else,
\* or a value that takes no 'ai_provider' key, is passed over.
RECURSIVE TryProviders(_, _)
TryProviders(providers, responses) ==
    IF providers = <<>> THEN NoResult
    ELSE LET provider_name == Head(providers)
             result == call_provider(provider_name, responses[provider_name])
         IN  IF result.kind = "dict"
             THEN [result EXCEPT !.ai_provider = provider_name]
             ELSE TryProviders(Tail(providers), responses)

get_ai_insights(providers, responses, symbol, revenue_analysis, profitability_analysis) ==
    LET result == TryProviders(providers, responses)
    IN  IF result.kind = "dict" THEN result
        ELSE create_fallback_ai_analysis(symbol, revenue_analysis, profitability_analysis)

(* analyze *)

NoDetail ==
    [present |-> FALSE, revenue_cagr_5y |-> 0, pat_cagr_5y |-> Real(0),
     debt_to_equity |-> ZeroRatio, ai_enabled |-> FALSE, ai_provider_used |-> "None"]

fundamental_default_response(reason) ==
    [fundamental_score |-> 0, key_improving_metrics |-> <<>>,
     red_flags |-> <<reason>>, detailed_analysis |-> NoDetail]

\* The analyses and the enrichment of one call, as analyze holds them
\* before it scores.
Analyses(providers, responses, financial_data) ==
    LET revenue_analysis == analyze_revenue_growth(financial_data.financials)
        profitability_analysis == analyze_profitability(financial_data.financials)
    IN  [revenue |-> revenue_analysis,
         profitability |-> profitability_analysis,
         efficiency |-> analyze_efficiency(financial_data.financials, financial_data.balance_sheet),
         debt |-> analyze_debt_quality(financial_data.balance_sheet),
         cashflow |-> analyze_cashflow_quality(financial_data.cashflow, financial_data.financials),
         ai_insights |-> IF providers # <<>>
                         THEN get_ai_insights(providers, responses, financial_data.symbol,
                                              revenue_analysis, profitability_analysis)
                         ELSE EmptyObject]

\* analyze giving up on any history shorter than three periods
ReturnsEarlyShortHistory(data) ==
    \/ ~data.is_mapping
    \/ data.financials.is_mapping /\ Len(data.financials.periods) < 3

\* analyze returns before the analyses: the record is unreadable (the
\* handler catches the error), or financials is empty.
ReturnsEarly(data) ==
    \/ ~data.is_mapping
    \/ data.financials.is_mapping /\ data.financials.periods = <<>>

\* _create_analysis_prompt, which _get_ai_insights calls outside its own
\* handlers when providers are configured, fails on info.get when 'info' is
\* no mapping; the handler of analyze turns it into the default response.
PromptRaises(providers, data) == providers # <<>> /\ ~data.info.is_mapping

\* An exception between the analyses and the return, which the handler of
\* analyze turns into the default response.
AnalyzeRaises(a) ==
    \/ ScoreProfitabilityRaises(a.profitability)
    \/ /\ a.ai_insights.kind = "dict"
       /\ \/ ~a.ai_insights.strengths.iterable
          \/ ~a.ai_insights.risks.iterable
          \/ a.ai_insights.ai_score_adjustment.tag = "bad"

ScoreComponents(a) ==
    <<score_revenue_growth(a.revenue), score_profitability(a.profitability),
      score_efficiency(a.efficiency), score_debt_quality(a.debt),
      score_cashflow_quality(a.cashflow)>>

SumOf(components) ==
    components[1] + components[2] + components[3] + components[4] + components[5]

\* min(10, sum + inflection_bonus + ai_bonus)
FinalScore(a) ==
    Min(1000, SumOf(ScoreComponents(a))
                + calculate_inflection_bonus(a.revenue, a.profitability, a.efficiency)
                + (IF a.ai_insights.kind = "dict" THEN a.ai_insights.ai_score_adjustment.val ELSE 0))

FundamentalResponse(providers, a) ==
    LET improving_metrics ==
            Evidence(a.revenue.improving_trend, "Revenue CAGR improving")
            \o Evidence(a.profitability.margin_expansion, "Operating margin expanding")
            \o Evidence(a.efficiency.roce_improving, "ROCE improving")
            \o Evidence(a.efficiency.roe_improving, "ROE improving")
            \o Evidence(a.debt.debt_reducing, "Debt reduction trend")
            \o Evidence(a.cashflow.strong_ocf, "Strong operating cash flow")
            \o (IF a.ai_insights.kind = "dict" THEN a.ai_insights.strengths.items ELSE <<>>)
        red_flags ==
            Evidence(a.revenue.declining_trend, "Declining revenue trend")
            \o Evidence(a.profitability.margin_compression, "Margin compression trend")
            \o Evidence(a.debt.high_debt_risk, "High debt levels")
            \o Evidence(a.cashflow.poor_conversion, "Poor cash conversion")
            \o (IF a.ai_insights.kind = "dict" THEN a.ai_insights.risks.items ELSE <<>>)
    IN  [fundamental_score |-> FinalScore(a),
         key_improving_metrics |-> Take(improving_metrics, 5),
         red_flags |-> Take(red_flags, 3),
         detailed_analysis |->
             [present |-> TRUE,
              revenue_cagr_5y |-> a.revenue.cagr_5y,
              pat_cagr_5y |-> a.profitability.pat_cagr_5y,
              debt_to_equity |-> a.debt.debt_to_equity,
              ai_enabled |-> providers # <<>>,
              ai_provider_used |-> IF a.ai_insights.kind = "dict"
                                   THEN a.ai_insights.ai_provider ELSE "None"]]

analyze(providers, responses, financial_data) ==
    IF ~financial_data.is_mapping THEN fundamental_default_response("Analysis error")
    ELSE IF ReturnsEarly(financial_data)
    THEN fundamental_default_response("Insufficient financial data")
    ELSE IF PromptRaises(providers, financial_data)
    THEN fundamental_default_response("Analysis error")
    ELSE LET a == Analyses(providers, responses, financial_data)
         IN  IF AnalyzeRaises(a) THEN fundamental_default_response("Analysis error")
             ELSE FundamentalResponse(providers, a)

\* score_components as analyze leaves it: empty when it returned before
\* the scoring, cut short where a score function raised.
ScoreComponentsAtReturn(providers, responses, financial_data) ==
    IF ReturnsEarly(financial_data) \/ PromptRaises(providers, financial_data) THEN <<>>
    ELSE LET a == Analyses(providers, responses, financial_data)
         IN  IF ScoreProfitabilityRaises(a.profitability)
             THEN <<score_revenue_growth(a.revenue)>>
             ELSE ScoreComponents(a)


VARIABLES
    \* FundamentalAgent
    ai_providers,       \* self.ai_providers, the configured providers in priority order
    fund_pc,            \* "idle" | "done": analyze not yet called / returned
    financial_data,     \* the argument of analyze
    ai_responses,       \* how the call to each provider ends during analyze
    score_components,   \* the local list of analyze when it returns
    fund_result,        \* the value analyze returned
    previous_result     \* the value the call before this one returned

fundVars == <<ai_providers, fund_pc, financial_data, ai_responses, score_components, fund_result, previous_result>>

\* _initialize_ai_providers: the providers with a key, sorted by priority
HasKey(keys, provider_name) == provider_name \in keys

initialize_ai_providers(keys) ==
    LET Configured(provider_name) == HasKey(keys, provider_name)
    IN  SelectSeq(<<"groq", "huggingface", "anthropic">>, Configured)

\* analyze(financial_data), as a whole.
Analyze(data, responses) ==
    /\ fund_pc = "idle"
    /\ financial_data' = data
    /\ ai_responses' = responses
    /\ score_components' = ScoreComponentsAtReturn(ai_providers, responses, data)
    /\ fund_result' = analyze(ai_providers, responses, data)
    /\ fund_pc' = "done"
    /\ UNCHANGED <<ai_providers, previous_result>>

\* analyze with score_components kept on the agent from call to call
AnalyzeAgain_keeping_components(responses) ==
    /\ fund_pc = "done"
    /\ previous_result' = fund_result
    /\ ai_responses' = responses
    /\ score_components' = score_components \o ScoreComponentsAtReturn(ai_providers, responses, financial_data)
    /\ fund_result' =
           LET result == analyze(ai_providers, responses, financial_data)
           IN  IF result.detailed_analysis.present /\ Len(score_components) = 5
               THEN [result EXCEPT !.fundamental_score = Min(1000, @ + SumOf(score_components))]
               ELSE result
    /\ fund_pc' = "again"
    /\ UNCHANGED <<ai_providers, financial_data>>

\* A second call analyze(financial_data) on the same agent with the argument
\* of the first.  The call starts from what the first one left: self is
\* ai_providers, which analyze only reads; improving_metrics, red_flags
\* and score_components are locals created empty in each call; the argument
\* is read with get and never written.  The providers answer anew.
AnalyzeAgain(responses) ==
    /\ fund_pc = "done"
    /\ previous_result' = fund_result
    /\ ai_responses' = responses
    /\ score_components' = ScoreComponentsAtReturn(ai_providers, responses, financial_data)
    /\ fund_result' = analyze(ai_providers, responses, financial_data)
    /\ fund_pc' = "again"
    /\ UNCHANGED <<ai_providers, financial_data>>

----------------------------------------------------------------------------
(* Inputs of the fundamental agent *)

MaxPeriods == 6     \* reporting periods of a statement

\* Revenue of period i (1 is the oldest) growing at percent/100 a period.
RECURSIVE RevenueOf(_, _)
RevenueOf(i, percent) ==
    IF i = 1 THEN 10000 ELSE (RevenueOf(i - 1, percent) * percent) \div 100

GrowthRates == {0, 80, 100, 108, 115, 120}

ProfitPatterns == {"flat", "expanding", "compressing", "loss", "turned_loss"}

\* Operating and net margin, in percent, of period i of n.
OperatingPercent(profit, i) ==
    CASE profit = "expanding" -> 10 + 2 * i
      [] profit = "compressing" -> 24 - 2 * i
      [] profit = "loss" -> -5
      [] OTHER -> 15

NetPercent(profit, i, n) ==
    CASE profit = "expanding" -> 6 + 2 * i
      [] profit = "compressing" -> 16 - 2 * i
      [] profit = "loss" -> -8
      [] profit = "turned_loss" -> IF i = n THEN -5 ELSE 10
      [] OTHER -> 10

PeriodOf(i, n, percent, profit) ==
    [date |-> i,
     revenue |-> RevenueOf(i, percent),
     net_income |-> (RevenueOf(i, percent) * NetPercent(profit, i, n)) \div 100,
     operating_income |-> (RevenueOf(i, percent) * OperatingPercent(profit, i)) \div 100]

Orders == {"oldest_first", "newest_first"}

\* The dates 1..n in the order the statements hold them.
DatesIn(order, n) ==
    [k \in 1..n |-> IF order = "oldest_first" THEN k ELSE n + 1 - k]

BalancePatterns == {"none", "low_reducing", "moderate", "levered", "no_equity"}

BalanceOf(i, revenue, pattern) ==
    LET equity == CASE pattern = "no_equity" -> 0
                    [] pattern = "levered" -> revenue \div 3
                    [] OTHER -> revenue \div 2
        debt_percent == CASE pattern = "low_reducing" -> 40 - 5 * i
                          [] pattern = "levered" -> 110 + 10 * i
                          [] OTHER -> 60
    IN  [date |-> i,
         total_assets |-> revenue,
         equity |-> equity,
         total_debt |-> IF pattern = "no_equity" THEN 1000 ELSE (equity * debt_percent) \div 100]

\* Operating cash flow as a percentage of net income; 0 is no statement.
CashPercents == {0, 50, 90, 130, 160}

DefaultSymbol == Symbol(TRUE, "none")

Statements(n, order, percent, profit, balance, cash) ==
    LET dates == DatesIn(order, n)
        periods == [k \in 1..n |-> PeriodOf(dates[k], n, percent, profit)]
    IN  [is_mapping |-> TRUE,
         symbol |-> DefaultSymbol,
         info |-> [is_mapping |-> TRUE],
         financials |-> [is_mapping |-> TRUE, periods |-> periods],
         balance_sheet |-> IF balance = "none" THEN <<>>
                           ELSE [k \in 1..n |-> BalanceOf(dates[k], periods[k].revenue, balance)],
         cashflow |-> IF cash = 0 THEN <<>>
                      ELSE [k \in 1..n |-> [date |-> dates[k], ocf |-> (periods[k].net_income * cash) \div 100]]]

AllStatements ==
    {Statements(n, order, percent, profit, balance, cash) :
        n \in 0..MaxPeriods, order \in Orders, percent \in GrowthRates,
        profit \in ProfitPatterns, balance \in BalancePatterns, cash \in CashPercents}

\* A record that is not a mapping, and records whose financials is a
\* non-empty value that is not a mapping.
UnreadableRecords ==
    {[Statements(0, "oldest_first", 100, "flat", "none", 0) EXCEPT !.is_mapping = FALSE]}
    \cup {[Statements(3, "oldest_first", 100, "flat", balance, cash) EXCEPT !.financials = [is_mapping |-> FALSE, periods |-> <<>>]] :
            balance \in {"none", "moderate"}, cash \in {0, 130}}

FewStatements ==
    {Statements(n, "oldest_first", percent, profit, "levered", 50) :
        n \in {2, 5, MaxPeriods}, percent \in {80, 120}, profit \in {"flat", "compressing", "turned_loss"}}

Failed == Response("http_error", "no_choices", NoResult)
NotJson == Response("ok", "text", NoResult)
JsonScalar == Response("ok", "json_scalar", NoResult)
Json(object) == Response("ok", "json_object", object)

\* An insights object in the format the prompt asks for.
Answer(adjustment) ==
    Insights(Items(<<"strength1", "strength2", "strength3">>), Items(<<"risk1", "risk2">>), adjustment, NoKey)

ResponsesOf(provider_name) ==
    CASE provider_name = "groq" ->
           {Failed, NotJson, Json(EmptyObject), Json(Answer(Num(50))),
            Json(Answer(Num(-100))), Json(Answer(NotANumber))}
      [] provider_name = "huggingface" ->
           {Failed, Response("loading", "no_choices", NoResult), NotJson}
      [] provider_name = "anthropic" ->
           {Failed, JsonScalar, Json([Answer(Num(50)) EXCEPT !.strengths = NotIterable])}

ProviderKeys == {"groq", "huggingface", "anthropic"}

AllFailed == [provider_name \in ProviderKeys |-> Failed]

\* Every way the calls to the configured providers can end.
AllResponses(providers) ==
    LET configured == {providers[i] : i \in 1..Len(providers)}
        Choices(provider_name) ==
            IF provider_name \in configured THEN ResponsesOf(provider_name) ELSE {Failed}
    IN  {[groq |-> g, huggingface |-> h, anthropic |-> a] :
            g \in Choices("groq"), h \in Choices("huggingface"), a \in Choices("anthropic")}

\* Statements whose revenue is the given series, oldest period first, with
\* steady margins and no balance sheet or cash flow statement.
SeriesStatements(series) ==
    [Statements(0, "oldest_first", 100, "flat", "none", 0) EXCEPT
        !.financials.periods =
            [i \in 1..Len(series) |->
                [date |-> i, revenue |-> series[i],
                 net_income |-> series[i] \div 10,
                 operating_income |-> (series[i] * 15) \div 100]]]

\* Revenue growing 10% a period over five periods: 100, 110, 121, 133.1, 146.41
TenPercentSeries == [i \in 1..5 |-> RevenueOf(i, 110)]

RevenueLevels == {8000, 10000, 12000}

\* Revenue series of three periods and more, each period at one of the levels.
RevenueSeries ==
    {TenPercentSeries}
    \cup UNION {[1..n -> RevenueLevels] : n \in 3..(MaxPeriods - 1)}

SheetPeriods == 3     \* periods of a balance sheet drawn freely

EquityLevels == {0, 5000}
DebtLevels == {1000, 6000}

\* Statements of n flat periods whose balance sheet holds, in the given
\* order, a period of any equity and debt level for each date.
SheetStatements(n, order, levels) ==
    LET dates == DatesIn(order, n)
    IN  [SeriesStatements([i \in 1..n |-> 10000]) EXCEPT
            !.balance_sheet =
                [k \in 1..n |->
                    [date |-> dates[k], total_assets |-> 10000,
                     equity |-> levels[dates[k]][1], total_debt |-> levels[dates[k]][2]]]]

AllSheets ==
    {SheetStatements(n, order, levels) :
        n \in 2..SheetPeriods, order \in Orders,
        levels \in [1..SheetPeriods -> EquityLevels \X DebtLevels]}

FundInputs(providers) ==
    ((AllStatements \cup UnreadableRecords) \X {AllFailed})
    \cup (FewStatements \X AllResponses(providers))

----------------------------------------------------------------------------
(***************************************************************************)
(* TechnicalAgent (agents/technical_agent.py).                             *)
(*                                                                         *)
(* The price history is the daily series _get_extended_price_data fetches  *)
(* for the symbol; technical_data is the mapping of indicators the caller  *)
(* supplies.  The series is kept as its runs of equal bars: a run is the   *)
(* bars first..last with one High, Low and Close.  Prices are integers;    *)
(* a percentage test is done by cross-multiplication.  The volume, trend   *)
(* and relative-strength analyses are each contained in their own handler  *)
(* and feed neither the stage nor the risk/reward ratio.                   *)
(***************************************************************************)

VARIABLES
    \* TechnicalAgent
    tech_pc,            \* "idle" | "done": analyze not yet called / returned
    price_data,         \* the series _get_extended_price_data returned
    technical_data,     \* the argument technical_data of analyze
    tech_result         \* the value analyze returned

techVars == <<tech_pc, price_data, technical_data, tech_result>>

Window == 252               \* bars of the rolling year
BarsPerMonth == 21
RecentCloses == 10          \* closes looked at for a false breakout

SetMax(S) == CHOOSE x \in S : \A y \in S : y <= x
SetMin(S) == CHOOSE x \in S : \A y \in S : x <= y

\* len(price_data)
BarCount(series) == IF series = <<>> THEN 0 ELSE series[Len(series)].last

\* The runs with a bar in from..to
RunsIn(series, from, to) ==
    {i \in 1..Len(series) : series[i].first <= to /\ series[i].last >= from}

\* price_data['High'].tail(n).max() and the like, at the bar t
HighestHigh(series, t, n) == SetMax({series[i].High : i \in RunsIn(series, t - n + 1, t)})
LowestLow(series, t, n) == SetMin({series[i].Low : i \in RunsIn(series, t - n + 1, t)})

\* price_data['Close'].iloc[-1]
LastClose(series) == series[Len(series)].Close

\* price_ranges < 30 at the bar t: the rolling year is not full before
\* the bar Window, and NaN < 30 is false.
IsConsolidating(series, t) ==
    /\ t >= Window
    /\ LowestLow(series, t, Window) > 0
    /\ (HighestHigh(series, t, Window) - LowestLow(series, t, Window)) * 100
         < 30 * LowestLow(series, t, Window)

\* The loop over consolidation_periods, for the bars from..to: the longest
\* run of consolidating bars (best), the runs the span starts and ends
\* with (head, tail), and its length.  The span is halved rather than
\* walked bar by bar; joining two halves joins the run that crosses them.
RECURSIVE Streaks(_, _, _)
Streaks(series, from, to) ==
    IF from = to
    THEN LET one == IF IsConsolidating(series, from) THEN 1 ELSE 0
         IN  [length |-> 1, head |-> one, tail |-> one, best |-> one]
    ELSE LET mid == (from + to) \div 2
             left == Streaks(series, from, mid)
             right == Streaks(series, mid + 1, to)
         IN  [length |-> left.length + right.length,
              head |-> IF left.head = left.length THEN left.length + right.head ELSE left.head,
              tail |-> IF right.tail = right.length THEN right.length + left.tail ELSE right.tail,
              best |-> Max(Max(left.best, right.best), left.tail + right.head)]

MaxStreak(series) == Streaks(series, 1, BarCount(series)).best

\* base_duration_months is max_streak / 21: kept as the streak in bars.
analyze_base_formation(series) ==
    IF BarCount(series) < Window
    THEN [base_duration_bars |-> 0, base_quality |-> "POOR"]
    ELSE LET max_streak == MaxStreak(series)
         IN  [base_duration_bars |-> max_streak,
              base_quality |->
                  IF max_streak >= 36 * BarsPerMonth THEN "EXCELLENT"
                  ELSE IF max_streak >= 24 * BarsPerMonth THEN "GOOD"
                  ELSE IF max_streak >= 12 * BarsPerMonth THEN "FAIR"
                  ELSE "POOR"]

BreakoutDefault ==
    [breakout_confirmed |-> FALSE, breakout_strength |-> "WEAK",
     resistance_level |-> Absent, false_breakout |-> FALSE]

\* a resistance taken from the bars before the last ten
analyze_breakout_patterns_earlier_highs(series, indicators) ==
    IF series = <<>> THEN BreakoutDefault
    ELSE IF indicators.current_price.tag = "bad" THEN BreakoutDefault   \* comparing raises
    ELSE LET n == BarCount(series)
             supplied == GetNum(indicators.current_price, 0).val
             current_price == IF supplied = 0 THEN LastClose(series) ELSE supplied
             resistance_level ==
                 IF n > RecentCloses THEN HighestHigh(series, n - RecentCloses, Window)
                 ELSE HighestHigh(series, n, Window)
             breakout == current_price * 100 > resistance_level * 102
             breakout_strength ==
                 IF ~breakout THEN "NO_BREAKOUT"
                 ELSE IF (current_price - resistance_level) * 100 > 10 * resistance_level THEN "STRONG"
                 ELSE IF (current_price - resistance_level) * 100 > 5 * resistance_level THEN "MODERATE"
                 ELSE "WEAK"
             false_breakout ==
                 /\ breakout
                 /\ \E i \in RunsIn(series, n - RecentCloses + 1, n) :
                       series[i].Close * 100 < resistance_level * 98
         IN  [breakout_confirmed |-> breakout /\ ~false_breakout,
              breakout_strength |-> breakout_strength,
              resistance_level |-> Num(resistance_level),
              false_breakout |-> false_breakout]

analyze_breakout_patterns(series, indicators) ==
    IF series = <<>> THEN BreakoutDefault
    ELSE IF indicators.current_price.tag = "bad" THEN BreakoutDefault   \* comparing raises
    ELSE LET n == BarCount(series)
             supplied == GetNum(indicators.current_price, 0).val
             current_price == IF supplied = 0 THEN LastClose(series) ELSE supplied
             resistance_level == HighestHigh(series, n, Window)
             breakout == current_price * 100 > resistance_level * 102
             breakout_strength ==
                 IF ~breakout THEN "NO_BREAKOUT"
                 ELSE IF (current_price - resistance_level) * 100 > 10 * resistance_level THEN "STRONG"
                 ELSE IF (current_price - resistance_level) * 100 > 5 * resistance_level THEN "MODERATE"
                 ELSE "WEAK"
             false_breakout ==
                 /\ breakout
                 /\ \E i \in RunsIn(series, n - RecentCloses + 1, n) :
                       series[i].Close * 100 < resistance_level * 98
         IN  [breakout_confirmed |-> breakout /\ ~false_breakout,
              breakout_strength |-> breakout_strength,
              resistance_level |-> Num(resistance_level),
              false_breakout |-> false_breakout]

\* a stage that trusts a breakout whatever the base
determine_technical_stage_any_base(base_analysis, breakout_analysis, series) ==
    IF breakout_analysis.breakout_confirmed
    THEN IF series # <<>>
              /\ (LastClose(series) - GetNum(breakout_analysis.resistance_level, LastClose(series)).val) * 100
                   > 50 * GetNum(breakout_analysis.resistance_level, LastClose(series)).val
         THEN "EXTENDED" ELSE "BREAKOUT"
    ELSE "BASE"

determine_technical_stage(base_analysis, breakout_analysis, series) ==
    IF breakout_analysis.breakout_confirmed /\ base_analysis.base_quality \in {"GOOD", "EXCELLENT"}
    THEN IF series # <<>>
              /\ (LastClose(series) - GetNum(breakout_analysis.resistance_level, LastClose(series)).val) * 100
                   > 50 * GetNum(breakout_analysis.resistance_level, LastClose(series)).val
         THEN "EXTENDED" ELSE "BREAKOUT"
    ELSE "BASE"

calculate_risk_reward(series, indicators, breakout_analysis) ==
    IF series = <<>> THEN "1:1"
    ELSE IF indicators.current_price.tag = "bad" \/ indicators.support_level.tag = "bad"
    THEN "1:1"                                          \* the subtraction raises
    ELSE LET n == BarCount(series)
             current_price == GetNum(indicators.current_price, LastClose(series)).val
             support_level == GetNum(indicators.support_level, LowestLow(series, n, Window)).val
             resistance_level == GetNum(breakout_analysis.resistance_level, HighestHigh(series, n, Window)).val
             \* ten times the risk and the reward
             risk == (current_price - support_level) * 10
             reward == resistance_level * 12 - current_price * 10
         IN  IF risk <= 0 THEN "1:1"
             ELSE IF reward >= 3 * risk THEN "1:3+"
             ELSE IF reward >= 2 * risk THEN "1:2"
             ELSE IF 2 * reward >= 3 * risk THEN "1:1.5"
             ELSE "1:1"

\* an analysis whose stage never looks at how far the close has run
technical_analyze_never_extended(series, indicators) ==
    LET base_formation_analysis == analyze_base_formation(series)
        breakout_analysis == analyze_breakout_patterns(series, indicators)
    IN  [technical_stage |->
             IF breakout_analysis.breakout_confirmed
                /\ base_formation_analysis.base_quality \in {"GOOD", "EXCELLENT"}
             THEN "BREAKOUT" ELSE "BASE",
         risk_reward_ratio |-> calculate_risk_reward(series, indicators, breakout_analysis),
         detailed_analysis |->
             [base_formation_bars |-> base_formation_analysis.base_duration_bars,
              breakout_confirmed |-> breakout_analysis.breakout_confirmed,
              support_level |-> indicators.support_level,
              resistance_level |-> GetNum(breakout_analysis.resistance_level, 0).val]]

technical_analyze(series, indicators) ==
    LET base_formation_analysis == analyze_base_formation(series)
        breakout_analysis == analyze_breakout_patterns(series, indicators)
    IN  [technical_stage |->
             determine_technical_stage(base_formation_analysis, breakout_analysis, series),
         risk_reward_ratio |-> calculate_risk_reward(series, indicators, breakout_analysis),
         detailed_analysis |->
             [base_formation_bars |-> base_formation_analysis.base_duration_bars,
              breakout_confirmed |-> breakout_analysis.breakout_confirmed,
              support_level |-> indicators.support_level,
              resistance_level |-> GetNum(breakout_analysis.resistance_level, 0).val]]

\* TechnicalAgent.analyze(financial_data, technical_data), as a whole; the
\* series is what the fetch inside it returns.
TechnicalAnalyze(series, indicators) ==
    /\ tech_pc = "idle"
    /\ price_data' = series
    /\ technical_data' = indicators
    /\ tech_result' = technical_analyze(series, indicators)
    /\ tech_pc' = "done"

----------------------------------------------------------------------------
(* Inputs of the technical agent *)

MaxYears == 3       \* rolling years of price history

\* Bar counts around each whole number of rolling years, and next to none.
BarCounts == {0, 1} \cup {k * Window - 1 : k \in 1..MaxYears} \cup {k * Window : k \in 1..MaxYears}

Run(first, last, high, low, close) ==
    [first |-> first, last |-> last, High |-> high, Low |-> low, Close |-> close]

Shapes == {"tight", "wide", "dip", "rally", "gap"}

\* The last bars of a series, by its shape: a fall of the close, a rally
\* to new highs, closes above the highs.
EndingOf(shape, first, last) ==
    CASE shape = "dip" -> Run(first, last, 101, 88, 90)
      [] shape = "rally" -> Run(first, last, 140, 100, 138)
      [] shape = "gap" -> Run(first, last, 101, 95, 160)

EndingBars == 5

Series(n, shape) ==
    IF n = 0 THEN <<>>
    ELSE IF shape = "wide" THEN <<Run(1, n, 150, 100, 120)>>
    ELSE IF shape = "tight" \/ n <= EndingBars THEN <<Run(1, n, 101, 95, 100)>>
    ELSE <<Run(1, n - EndingBars, 101, 95, 100), EndingOf(shape, n - EndingBars + 1, n)>>

AllSeries == {Series(n, shape) : n \in BarCounts, shape \in Shapes}

Indicators(current_price, support_level) ==
    [current_price |-> current_price, support_level |-> support_level]

\* What the caller supplies: nothing, the fetcher's zero, prices below and
\* above the resistance, a value that is not a number.
AllIndicators ==
    {Indicators(current_price, support_level) :
        current_price \in {Absent, Num(0), Num(100), Num(104), Num(108), Num(115), Num(250), NotANumber},
        support_level \in {Absent, Num(90), Num(99), NotANumber}}

----------------------------------------------------------------------------
(* MultibaggerResearchSystem.discover_multibaggers (main_system.py): the    *)
(* data of each requested symbol is fetched, the five agents analyse it,    *)
(* and the supervisor synthesises the analyses that were collected.  The    *)
(* agents keep nothing between two calls, so a discovery leaves the state   *)
(* of the fundamental and the technical agent as it was.                    *)

VARIABLES
    disc_pc,          \* "idle" until discover_multibaggers has returned, then "done", or "failed" when its handler returned
    stock_symbols,    \* the symbols asked for, each given as what the data sources hold for it
    discovery         \* the mapping discover_multibaggers returned

discVars == <<disc_pc, stock_symbols, discovery>>

\* stock_symbols[:20], line 80.
SymbolLimit == 20

\* What the data fetcher and the four other agents yield for one symbol:
\* get_financial_data's value (empty when nothing was found) and the outputs
\* of the management, technical, smart money and policy agents.
\* fii_dii_data is what get_fii_dii_data gave, a mapping unless told
\* otherwise; raises holds the agents whose analyze raises on this stock.
Source(record, others) ==
    [financial_data_empty |-> FALSE, financial_data |-> record, others |-> others,
     fii_dii_data |-> [is_mapping |-> TRUE], raises |-> {}]

AgentNames == {"fundamental", "management", "technical", "smart_money", "policy"}

\* The outputs of the four other agents, the place of the fundamental
\* output still to be filled.
StrongOthers == Analysis(Absent, Num(800), Num(800), "BREAKOUT", "1:3+", "STRONG", "LONG")
MiddlingOthers == Typical(Absent)

\* Lines 190-222: the substitutes when each of the four other agents raised.
FailedOthers ==
    [Analysis(Absent, Num(0), Absent, "BASE", "1:1", "WEAK", "SHORT")
        EXCEPT !.management_analysis.minority_shareholder_alignment = "LOW"]

\* Line 185: the substitute when the fundamental agent raised.
FailedFundamental ==
    [is_mapping |-> TRUE, fundamental_score |-> Num(0),
     key_improving_metrics |-> ListOf(<<>>), red_flags |-> ListOf(<<"Analysis failed">>)]

NoSource ==
    [financial_data_empty |-> TRUE,
     financial_data |-> Statements(0, "oldest_first", 100, "flat", "none", 0),
     others |-> FailedOthers,
     fii_dii_data |-> [is_mapping |-> TRUE], raises |-> {}]

\* Lines 118-155: nothing when get_financial_data found nothing.
NoStockData ==
    [empty |-> TRUE, financial_data |-> NoSource.financial_data, others |-> FailedOthers,
     fii_dii_data |-> [is_mapping |-> TRUE], raises |-> {}]

get_comprehensive_stock_data(source) ==
    IF source.financial_data_empty THEN NoStockData
    ELSE [empty |-> FALSE, financial_data |-> source.financial_data, others |-> source.others,
          fii_dii_data |-> source.fii_dii_data, raises |-> source.raises]

\* Lines 236-247: what _run_multi_agent_analysis returns when it raised
\* outside the agents' own handlers; the mapping has no 'risk_reward_ratio',
\* no 'smart_money_conviction_score', no 'time_horizon', no 'financial_data'.
analysis_error_response(symbol) ==
    [Analysis(Num(0), Num(0), Absent, "BASE", NoKey, "WEAK", NoKey) EXCEPT !.symbol = symbol]

\* Lines 175-223: the five agents, each in its own try; the output of an
\* agent that raised is the substitute of its handler.
AgentOutputs(providers, symbol, stock_data) ==
    LET fundamental_analysis == analyze(providers, AllFailed, stock_data.financial_data)
        raises == stock_data.raises
        others == stock_data.others
    IN  [others EXCEPT
            !.symbol = symbol,
            !.fundamental_analysis =
                IF "fundamental" \in raises THEN FailedFundamental
                ELSE [@ EXCEPT !.fundamental_score = Num(fundamental_analysis.fundamental_score),
                               !.key_improving_metrics = ListOf(fundamental_analysis.key_improving_metrics),
                               !.red_flags = ListOf(fundamental_analysis.red_flags)],
            !.management_analysis =
                IF "management" \in raises THEN FailedOthers.management_analysis ELSE @,
            !.technical_analysis =
                IF "technical" \in raises THEN FailedOthers.technical_analysis ELSE @,
            !.smart_money_analysis =
                IF "smart_money" \in raises THEN FailedOthers.smart_money_analysis ELSE @,
            !.policy_analysis =
                IF "policy" \in raises THEN FailedOthers.policy_analysis ELSE @]

\* Lines 157-247.  Outside the tries of the agents, financial_data.get('info',
\* {}).get of line 171 raises when financial_data or its info is no mapping,
\* and fii_dii_data.get of line 231 when fii_dii_data is none: the handler
\* of line 236 returns the error response in place of the five outputs.
\* get_news_sentiment returns a mapping whatever happens to its request.
\* The fundamental agent's provider calls, when it has providers, fail here.
run_multi_agent_analysis(providers, symbol, stock_data) ==
    IF ~stock_data.financial_data.is_mapping THEN analysis_error_response(symbol)
    ELSE IF ~stock_data.financial_data.info.is_mapping THEN analysis_error_response(symbol)
    ELSE IF ~stock_data.fii_dii_data.is_mapping THEN analysis_error_response(symbol)
    ELSE AgentOutputs(providers, symbol, stock_data)

\* A record the fundamental analyses cannot read: it is no mapping, or its
\* financials is a value that is no mapping.
BadRecord(record) ==
    \/ ~record.is_mapping
    \/ ~record.financials.is_mapping

\* The loop body with a stock dropped when its record cannot be read.
analyse_symbol_dropping_unreadable(providers, analyses, symbol, source) ==
    LET stock_data == get_comprehensive_stock_data(source)
    IN  IF stock_data.empty \/ BadRecord(stock_data.financial_data) THEN analyses
        ELSE Append(analyses, run_multi_agent_analysis(providers, symbol, stock_data))

\* One iteration of the loop of lines 80-99 on the list of analyses.
analyse_symbol(providers, analyses, symbol, source) ==
    LET stock_data == get_comprehensive_stock_data(source)
    IN  IF stock_data.empty THEN analyses     \* logged, continue
        ELSE Append(analyses, run_multi_agent_analysis(providers, symbol, stock_data))

\* The analyses collected from the first k symbols; the symbol of a stock
\* is its place in the list asked for.
RECURSIVE AnalyseSymbols(_, _, _)
AnalyseSymbols(providers, symbols, k) ==
    IF k = 0 THEN <<>>
    ELSE analyse_symbol(providers, AnalyseSymbols(providers, symbols, k - 1), k, symbols[k])

\* What discover_multibaggers returns: the output of the supervisor, or a
\* mapping with the one key 'error' (has_buckets tells which).
NoDiscovery == [error |-> NoKey, has_buckets |-> TRUE, results |-> NoOutput]

\* An error returned together with the empty output of the supervisor.
ErrorWithBuckets(message) == [error |-> message, has_buckets |-> TRUE, results |-> NoOutput]

ErrorOnly(message) == [error |-> message, has_buckets |-> FALSE, results |-> NoOutput]

\* a discovery that visits every symbol of the list
Discover_every_symbol(symbols) ==
    /\ disc_pc = "idle"
    /\ stock_symbols' = symbols
    /\ disc_pc' = "done"
    /\ IF symbols = <<>>
       THEN /\ discovery' = ErrorOnly("No stocks found for analysis")
            /\ UNCHANGED supVars
       ELSE /\ Synthesize(AnalyseSymbols(ai_providers, symbols, Len(symbols)))
            /\ discovery' = [error |-> NoKey, has_buckets |-> TRUE, results |-> final_output']
    /\ UNCHANGED <<fundVars, techVars>>

\* discover_multibaggers(stock_symbols), as a whole (lines 54-116), the
\* synthesis of the supervisor included.
Discover(symbols) ==
    /\ disc_pc = "idle"
    /\ stock_symbols' = symbols
    /\ disc_pc' = "done"
    /\ IF symbols = <<>>
       THEN /\ discovery' = ErrorOnly("No stocks found for analysis")
            /\ UNCHANGED supVars
       ELSE /\ Synthesize(AnalyseSymbols(ai_providers, symbols, Min(Len(symbols), SymbolLimit)))
            /\ discovery' = [error |-> NoKey, has_buckets |-> TRUE, results |-> final_output']
    /\ UNCHANGED <<fundVars, techVars>>

\* discover_multibaggers called with a non-empty value that cannot be
\* sliced, such as a number: stock_symbols[:20] of line 80 raises, and the
\* handler of lines 114-116 returns the error.  disc_pc is "failed" after a
\* return from that handler.
DiscoverNoList ==
    /\ disc_pc = "idle"
    /\ stock_symbols' = <<>>
    /\ disc_pc' = "failed"
    /\ discovery' = ErrorOnly("Discovery process failed")
    /\ UNCHANGED <<supVars, fundVars, techVars>>

(* Inputs of the discovery *)

MaxSymbols == 3     \* symbols drawn freely at the end of the list asked for

\* Records that can be read: a growing company, a flat one, one without history.
ReadableRecords ==
    {Statements(MaxPeriods, "oldest_first", 120, "expanding", "low_reducing", 160),
     Statements(MaxPeriods - 1, "newest_first", 108, "flat", "moderate", 90),
     Statements(0, "oldest_first", 100, "flat", "none", 0)}

SourceKinds ==
    {NoSource}
      \cup {Source(record, others) :
              record \in ReadableRecords \cup UnreadableRecords,
              others \in {StrongOthers, FailedOthers}}

\* A run of n symbols without history whose other agents are middling.
Filler(n) == [i \in 1..n |-> Source(Statements(0, "oldest_first", 100, "flat", "none", 0), MiddlingOthers)]

\* Lists of symbols: k symbols of any kind, alone or behind a run one short
\* of the limit of line 80.
SymbolLists(k) ==
    {Filler(n) \o tail : n \in {0, SymbolLimit - 1}, tail \in [1..k -> SourceKinds]}

----------------------------------------------------------------------------
(* ManagementAgent (management_agent.py).  Holdings are whole percents,    *)
(* scores hundredths of a point (150 is 1.5).  A business summary is the   *)
(* set of the keywords its lower-cased text contains, with its length.    *)

\* company metadata: 'longBusinessSummary', 'website', 'lastFiscalYearEnd',
\* 'governanceEpochDate' (TRUE when the key holds a value), 'foundingYear'.
Info(summary, summary_length, website, lastFiscalYearEnd, governanceEpochDate, foundingYear) ==
    [is_mapping |-> TRUE, summary |-> summary, summary_length |-> summary_length,
     website |-> website, lastFiscalYearEnd |-> lastFiscalYearEnd,
     governanceEpochDate |-> governanceEpochDate, foundingYear |-> foundingYear]

EmptyInfo == Info({}, 0, FALSE, FALSE, FALSE, Absent)

Shareholding(promoter_holding, institutional_holding) ==
    [is_mapping |-> TRUE, promoter_holding |-> promoter_holding,
     institutional_holding |-> institutional_holding]

\* any(keyword in business_summary for keyword in keywords)
ContainsAny(summary, keywords) == summary \cap keywords # {}

\* Lines 126-128: what _analyze_promoter_changes returns from its handler,
\* read with the defaults of the .get calls that follow.
PromoterDefault ==
    [promoter_holding |-> 0, institutional_holding |-> 0, stable_holding |-> FALSE,
     high_promoter_holding |-> FALSE, low_promoter_holding |-> FALSE,
     strategic_investor |-> FALSE, pe_vc_presence |-> FALSE]

\* Lines 98-128.  A holding that is no number fails the comparisons, an
\* info that is no mapping fails info.get.
analyze_promoter_changes(shareholding_data, info) ==
    IF ~shareholding_data.is_mapping THEN PromoterDefault
    ELSE LET promoter_holding == GetNum(shareholding_data.promoter_holding, 0)
             institutional_holding == GetNum(shareholding_data.institutional_holding, 0)
         IN  IF promoter_holding.tag = "bad" \/ institutional_holding.tag = "bad" \/ ~info.is_mapping
             THEN PromoterDefault
             ELSE [promoter_holding |-> promoter_holding.val,
                   institutional_holding |-> institutional_holding.val,
                   stable_holding |-> 40 <= promoter_holding.val /\ promoter_holding.val <= 75,
                   high_promoter_holding |-> promoter_holding.val > 75,
                   low_promoter_holding |-> promoter_holding.val < 25,
                   strategic_investor |-> institutional_holding.val > 20,
                   pe_vc_presence |-> "private equity" \in info.summary]

\* Lines 157-159; 'rpt_concerns' is missing and is read with default True.
GovernanceDefault ==
    [professional_management |-> FALSE, board_independence |-> FALSE,
     rpt_concerns |-> TRUE, established_company |-> FALSE]

CurrentYear == 2024     \* line 146
UnknownAge == 4         \* line 146

\* Lines 130-159.
analyze_governance_quality(info) ==
    IF ~info.is_mapping \/ info.foundingYear.tag = "bad" THEN GovernanceDefault
    ELSE LET company_age == IF info.foundingYear.tag = "num" /\ info.foundingYear.val # 0
                            THEN CurrentYear - info.foundingYear.val ELSE UnknownAge
         IN  [professional_management |->
                  ContainsAny(info.summary, {"professional management", "experienced leadership",
                                             "industry veteran", "former ceo", "ex-", "iim", "iit", "mba"}),
              board_independence |-> info.governanceEpochDate,
              rpt_concerns |-> "related party" \in info.summary,
              established_company |-> company_age > 10]

TrackRecordDefault ==
    [experienced_team |-> FALSE, industry_expertise |-> FALSE, past_success |-> FALSE]

\* Lines 161-190.
analyze_management_track_record(info) ==
    IF ~info.is_mapping THEN TrackRecordDefault
    ELSE [experienced_team |->
              ContainsAny(info.summary, {"years of experience", "decades", "veteran", "expertise",
                                         "track record", "proven", "established"}),
          industry_expertise |->
              ContainsAny(info.summary, {"industry leader", "market leader", "pioneer", "innovator"}),
          past_success |->
              ContainsAny(info.summary, {"successful", "growth", "expansion", "turnaround"})]

TransparencyDefault ==
    [has_website |-> FALSE, has_business_summary |-> FALSE,
     regular_updates |-> FALSE, good_disclosure |-> FALSE]

\* Lines 192-215.
analyze_transparency(info) ==
    IF ~info.is_mapping THEN TransparencyDefault
    ELSE LET has_business_summary == info.summary_length > 100
         IN  [has_website |-> info.website,
              has_business_summary |-> has_business_summary,
              regular_updates |-> info.lastFiscalYearEnd,
              good_disclosure |-> info.website /\ has_business_summary /\ info.lastFiscalYearEnd]

\* Lines 217-233.
score_promoter_quality(analysis) ==
    Min(250, (IF analysis.stable_holding THEN 150
              ELSE IF analysis.high_promoter_holding THEN 100
              ELSE IF analysis.low_promoter_holding THEN 50 ELSE 0)
             + (IF analysis.strategic_investor THEN 50 ELSE 0)
             + (IF analysis.pe_vc_presence THEN 50 ELSE 0))

\* Lines 235-251.
score_governance(analysis) ==
    Min(250, (IF analysis.professional_management THEN 100 ELSE 0)
             + (IF analysis.board_independence THEN 50 ELSE 0)
             + (IF analysis.established_company THEN 50 ELSE 0)
             + (IF ~analysis.rpt_concerns THEN 50 ELSE 0))

\* Lines 253-266.
score_track_record(analysis) ==
    Min(250, (IF analysis.experienced_team THEN 100 ELSE 0)
             + (IF analysis.industry_expertise THEN 75 ELSE 0)
             + (IF analysis.past_success THEN 75 ELSE 0))

\* a transparency score that gives 2 points for the disclosure, without cap
score_transparency_uncapped(analysis) ==
    (IF analysis.good_disclosure THEN 200 ELSE 0)
      + (IF analysis.has_website THEN 50 ELSE 0)
      + (IF analysis.regular_updates THEN 50 ELSE 0)

\* Lines 268-282.
score_transparency(analysis) ==
    Min(250, (IF analysis.good_disclosure THEN 150 ELSE 0)
             + (IF analysis.has_website THEN 50 ELSE 0)
             + (IF analysis.regular_updates THEN 50 ELSE 0))

\* Lines 284-312.
determine_shareholder_alignment(promoter_analysis, governance_analysis, transparency_analysis) ==
    LET alignment_score ==
            (IF promoter_analysis.stable_holding THEN 2 ELSE 0)
            + (IF promoter_analysis.strategic_investor THEN 1 ELSE 0)
            + (IF governance_analysis.professional_management THEN 2 ELSE 0)
            + (IF ~governance_analysis.rpt_concerns THEN 1 ELSE 0)
            + (IF transparency_analysis.good_disclosure THEN 2 ELSE 0)
    IN  IF alignment_score >= 6 THEN "HIGH"
        ELSE IF alignment_score >= 3 THEN "MEDIUM" ELSE "LOW"

\* What a call of an agent's analyze comes to: the mapping it returned, or
\* an exception that reached the caller.
Returned(result) == [raised |-> FALSE, result |-> result]
Raised == [raised |-> TRUE, result |-> NoKey]

\* Lines 314-321.
management_default_response ==
    [management_quality_score |-> Num(0), evidence_of_change |-> <<>>,
     minority_shareholder_alignment |-> "LOW", detailed_analysis |-> [error |-> TRUE]]

\* Lines 28-92, the body of the try of analyze.  financial_data.get of
\* line 30 fails on a record that is no mapping.
management_body(data, shareholding_data) ==
    IF ~data.is_mapping THEN Raised
    ELSE LET info == data.info
             promoter_analysis == analyze_promoter_changes(shareholding_data, info)
             governance_analysis == analyze_governance_quality(info)
             management_track_record == analyze_management_track_record(info)
             transparency_analysis == analyze_transparency(info)
             promoter_score == score_promoter_quality(promoter_analysis)
             governance_score == score_governance(governance_analysis)
             track_record_score == score_track_record(management_track_record)
             transparency_score == score_transparency(transparency_analysis)
         IN  Returned(
               [management_quality_score |->
                    Num(promoter_score + governance_score + track_record_score + transparency_score),
                evidence_of_change |->
                    Evidence(promoter_analysis.stable_holding, "Stable promoter holding indicates confidence")
                    \o Evidence(promoter_analysis.strategic_investor, "Strategic investor entry detected")
                    \o Evidence(governance_analysis.professional_management, "Professional management team in place")
                    \o Evidence(governance_analysis.board_independence, "Independent board structure")
                    \o Evidence(management_track_record.experienced_team, "Experienced management team")
                    \o Evidence(transparency_analysis.good_disclosure, "Good disclosure practices"),
                minority_shareholder_alignment |->
                    determine_shareholder_alignment(promoter_analysis, governance_analysis,
                                                    transparency_analysis),
                detailed_analysis |->
                    [error |-> FALSE,
                     promoter_holding_percent |-> promoter_analysis.promoter_holding,
                     institutional_holding_percent |-> promoter_analysis.institutional_holding,
                     governance_score |-> governance_score,
                     transparency_score |-> transparency_score]])

\* Lines 23-96: ManagementAgent.analyze(financial_data, shareholding_data);
\* the handler turns an exception of the body into the default response.
management_analyze(data, shareholding_data) ==
    LET outcome == management_body(data, shareholding_data)
    IN  IF outcome.raised THEN Returned(management_default_response) ELSE outcome

----------------------------------------------------------------------------
(* SmartMoneyAgent (smart_money_agent.py).  Amounts and holdings are whole *)
(* units, scores hundredths of a point.  A name is the set of the keywords *)
(* its lower-cased text contains.                                          *)

FiiDii(fii_net_investment_30d, dii_net_investment_30d, fii_holding_percent, dii_holding_percent) ==
    [is_mapping |-> TRUE,
     fii_net_investment_30d |-> fii_net_investment_30d,
     dii_net_investment_30d |-> dii_net_investment_30d,
     fii_holding_percent |-> fii_holding_percent,
     dii_holding_percent |-> dii_holding_percent]

\* A string, as far as the keyword tests read it; a value that is no string
\* has no .lower() and no .upper().
Name(text, contains) == [is_string |-> TRUE, text |-> text, contains |-> contains]
NoName == [is_string |-> TRUE, text |-> NoKey, contains |-> {}]     \* the key is missing
NotAString == [is_string |-> FALSE, text |-> NoKey, contains |-> {}]

Holding(fund_name, holding_percent) ==
    [is_mapping |-> TRUE, fund_name |-> fund_name, holding_percent |-> holding_percent]

\* The 'date' of a deal: an ISO date that many days before today (a
\* negative number is a date to come), a string strptime rejects, a value
\* that is no string, or no 'date' key.
IsoDate(days_ago) == [kind |-> "iso", days_ago |-> days_ago]
TextDate == [kind |-> "text", days_ago |-> 0]
NoStringDate == [kind |-> "not_string", days_ago |-> 0]
NoDate == [kind |-> "absent", days_ago |-> 0]

Deal(date, buy_sell, client_name, quantity, price) ==
    [is_mapping |-> TRUE, date |-> date, buy_sell |-> buy_sell,
     client_name |-> client_name, quantity |-> quantity, price |-> price]

NotADeal == [Deal(NoDate, NoName, NoName, Absent, Absent) EXCEPT !.is_mapping = FALSE]

RecentDays == 30    \* timedelta(days=30), line 367

\* Lines 363-370.  now_is_midnight: datetime.now() has no time of day, the
\* one instant at which a deal dated 30 days ago is not before the cutoff.
\* The default date, 2020-01-01, is long past; every error gives False.
is_recent_deal(deal, now_is_midnight) ==
    /\ deal.is_mapping
    /\ deal.date.kind = "iso"
    /\ \/ deal.date.days_ago < RecentDays
       \/ deal.date.days_ago = RecentDays /\ now_is_midnight

\* Lines 123-125, read with the defaults of the .get calls that follow.
FiiDiiDefault ==
    [fii_net_30d |-> 0, dii_net_30d |-> 0, net_positive_flow |-> FALSE,
     strong_fii_flow |-> FALSE, strong_dii_flow |-> FALSE,
     significant_fii_holding |-> FALSE, significant_dii_holding |-> FALSE,
     total_institutional_holding |-> 0]

\* Lines 96-125.
analyze_fii_dii_flows(fii_dii_data) ==
    IF ~fii_dii_data.is_mapping THEN FiiDiiDefault
    ELSE LET fii_net_30d == GetNum(fii_dii_data.fii_net_investment_30d, 0)
             dii_net_30d == GetNum(fii_dii_data.dii_net_investment_30d, 0)
             fii_holding == GetNum(fii_dii_data.fii_holding_percent, 0)
             dii_holding == GetNum(fii_dii_data.dii_holding_percent, 0)
         IN  IF "bad" \in {fii_net_30d.tag, dii_net_30d.tag, fii_holding.tag, dii_holding.tag}
             THEN FiiDiiDefault
             ELSE [fii_net_30d |-> fii_net_30d.val,
                   dii_net_30d |-> dii_net_30d.val,
                   net_positive_flow |-> fii_net_30d.val + dii_net_30d.val > 0,
                   strong_fii_flow |-> fii_net_30d.val > 10,
                   strong_dii_flow |-> dii_net_30d.val > 5,
                   significant_fii_holding |-> fii_holding.val > 10,
                   significant_dii_holding |-> dii_holding.val > 15,
                   total_institutional_holding |-> fii_holding.val + dii_holding.val]

\* Lines 130-131 and 162-164.
MutualFundDefault ==
    [increasing_holdings |-> FALSE, active_funds |-> <<>>, quality_funds |-> <<>>,
     total_mf_holding |-> 0]

RECURSIVE SumSeq(_)
SumSeq(numbers) == IF numbers = <<>> THEN 0 ELSE Head(numbers) + SumSeq(Tail(numbers))

QualityKeywords == {"hdfc", "icici", "sbi", "axis", "kotak", "franklin", "dsp"}

\* Lines 127-164.  The handler catches a holding that is no mapping, a
\* percent that is no number, a holding above 1% without 'fund_name', and
\* a fund name that is no string.
analyze_mutual_fund_activity(mf_holdings) ==
    IF ~mf_holdings.is_list \/ mf_holdings.items = <<>> THEN MutualFundDefault
    ELSE LET holdings == mf_holdings.items
             Percent(holding) == GetNum(holding.holding_percent, 0)
             Active(holding) == Percent(holding).val > 1
             Quality(holding) == holding.fund_name.contains \cap QualityKeywords # {}
             NameOf(holding) == holding.fund_name.text
             raises ==
                 \E k \in 1..Len(holdings) :
                    \/ ~holdings[k].is_mapping
                    \/ Percent(holdings[k]).tag = "bad"
                    \/ Active(holdings[k]) /\ holdings[k].fund_name.text = NoKey
                    \/ ~holdings[k].fund_name.is_string
         IN  IF raises THEN MutualFundDefault
             ELSE LET total_mf_holding == SumSeq([k \in 1..Len(holdings) |-> Percent(holdings[k]).val])
                      active == SelectSeq(holdings, Active)
                      quality == SelectSeq(holdings, Quality)
                  IN  [increasing_holdings |-> Len(quality) >= 2 /\ total_mf_holding > 5,
                       active_funds |-> Take([k \in 1..Len(active) |-> NameOf(active[k])], 3),
                       quality_funds |-> [k \in 1..Len(quality) |-> NameOf(quality[k])],
                       total_mf_holding |-> total_mf_holding]

\* str.upper() of the 'buy_sell' values that occur.
Upper(text) ==
    CASE text = "buy" -> "BUY"
      [] text = "sell" -> "SELL"
      [] OTHER -> text

\* deal.get('buy_sell', '').upper() == side
IsSide(deal, side) == deal.buy_sell.text # NoKey /\ Upper(deal.buy_sell.text) = side

\* Lines 166-167 and 208-210, read with the defaults of the .get calls.
BulkDealDefault ==
    [institutional_buying |-> FALSE, recent_activity |-> FALSE, net_buying |-> FALSE]

InstitutionalKeywords == {"mutual fund", "insurance", "pms", "aif", "fund"}

\* sum(deal.get('quantity', 0) * deal.get('price', 0) for deal in deals)
DealValue(deal) == GetNum(deal.quantity, 0).val * GetNum(deal.price, 0).val

\* Lines 166-210.  A deal that is no mapping is not recent (the handler of
\* _is_recent_deal).  The handler of _analyze_bulk_deals catches a recent
\* deal whose 'buy_sell' is no string, a client name that is no string on
\* a buy deal reached before the loop breaks, and a quantity or price that
\* is no number on a buy or sell deal.
analyze_bulk_deals(bulk_deals, now_is_midnight) ==
    IF ~bulk_deals.is_list \/ bulk_deals.items = <<>> THEN BulkDealDefault
    ELSE LET Recent(deal) == is_recent_deal(deal, now_is_midnight)
             Buy(deal) == IsSide(deal, "BUY")
             Sell(deal) == IsSide(deal, "SELL")
             Institutional(deal) == deal.client_name.contains \cap InstitutionalKeywords # {}
             recent_deals == SelectSeq(bulk_deals.items, Recent)
             side_raises == \E k \in 1..Len(recent_deals) : ~recent_deals[k].buy_sell.is_string
         IN  IF side_raises THEN BulkDealDefault
             ELSE LET buy_deals == SelectSeq(recent_deals, Buy)
                      sell_deals == SelectSeq(recent_deals, Sell)
                      name_raises ==
                          \E k \in 1..Len(buy_deals) :
                             /\ ~buy_deals[k].client_name.is_string
                             /\ \A j \in 1..(k - 1) : ~Institutional(buy_deals[j])
                      value_raises ==
                          \E k \in 1..Len(buy_deals \o sell_deals) :
                             LET deal == (buy_deals \o sell_deals)[k]
                             IN  GetNum(deal.quantity, 0).tag = "bad" \/ GetNum(deal.price, 0).tag = "bad"
                  IN  IF name_raises \/ value_raises THEN BulkDealDefault
                      ELSE [institutional_buying |->
                                \E k \in 1..Len(buy_deals) : Institutional(buy_deals[k]),
                            recent_activity |-> Len(recent_deals) > 0,
                            net_buying |->
                                SumSeq([k \in 1..Len(buy_deals) |-> DealValue(buy_deals[k])])
                                  > SumSeq([k \in 1..Len(sell_deals) |-> DealValue(sell_deals[k])])]

PeVcDefault == [pe_vc_presence |-> FALSE, recent_pe_entry |-> FALSE]

\* Lines 212-236.
analyze_pe_vc_activity(data) ==
    IF ~data.is_mapping THEN PeVcDefault
    ELSE IF ~data.info.is_mapping THEN PeVcDefault
    ELSE [pe_vc_presence |->
              ContainsAny(data.info.summary, {"private equity", "venture capital", "pe fund", "vc fund",
                                              "investment fund", "capital partners", "equity partners"}),
          recent_pe_entry |-> ContainsAny(data.info.summary, {"recent investment", "funding"})]

PromoterBuyingDefault == [promoter_buying |-> FALSE, promoter_deals_count |-> 0]

PromoterKeywords == {"promoter", "director", "founder", "chairman", "managing director"}

\* Lines 238-269.  The handler catches a deal that is no mapping, a client
\* name that is no string, and a recent promoter deal whose 'buy_sell' is
\* no string.
analyze_promoter_buying(bulk_deals, now_is_midnight) ==
    IF ~bulk_deals.is_list \/ bulk_deals.items = <<>> THEN PromoterBuyingDefault
    ELSE LET deals == bulk_deals.items
             raises_in_loop ==
                 \E k \in 1..Len(deals) : ~deals[k].is_mapping \/ ~deals[k].client_name.is_string
         IN  IF raises_in_loop THEN PromoterBuyingDefault
             ELSE LET Promoter(deal) == deal.client_name.contains \cap PromoterKeywords # {}
                      Recent(deal) == is_recent_deal(deal, now_is_midnight)
                      RecentBuy(deal) == Recent(deal) /\ IsSide(deal, "BUY")
                      promoter_deals == SelectSeq(deals, Promoter)
                      recent_promoter == SelectSeq(promoter_deals, Recent)
                  IN  IF \E k \in 1..Len(recent_promoter) : ~recent_promoter[k].buy_sell.is_string
                      THEN PromoterBuyingDefault
                      ELSE LET recent_promoter_deals == SelectSeq(promoter_deals, RecentBuy)
                           IN  [promoter_buying |-> Len(recent_promoter_deals) > 0,
                                promoter_deals_count |-> Len(recent_promoter_deals)]

\* Lines 271-287.
score_fii_dii_activity(analysis) ==
    Min(200, (IF analysis.net_positive_flow THEN 50 ELSE 0)
             + (IF analysis.strong_fii_flow THEN 50 ELSE 0)
             + (IF analysis.strong_dii_flow THEN 50 ELSE 0)
             + (IF analysis.significant_fii_holding \/ analysis.significant_dii_holding THEN 50 ELSE 0))

\* Lines 289-302.
score_mutual_fund_activity(analysis) ==
    Min(200, (IF analysis.increasing_holdings THEN 100 ELSE 0)
             + (IF analysis.total_mf_holding > 10 THEN 50 ELSE 0)
             + (IF Len(analysis.quality_funds) >= 2 THEN 50 ELSE 0))

\* Lines 304-317.
score_bulk_deal_activity(analysis) ==
    Min(200, (IF analysis.institutional_buying THEN 100 ELSE 0)
             + (IF analysis.net_buying THEN 50 ELSE 0)
             + (IF analysis.recent_activity THEN 50 ELSE 0))

\* Lines 319-329.
score_pe_vc_activity(analysis) ==
    Min(200, (IF analysis.pe_vc_presence THEN 100 ELSE 0)
             + (IF analysis.recent_pe_entry THEN 100 ELSE 0))

\* Lines 331-341.
score_promoter_buying(analysis) ==
    Min(200, (IF analysis.promoter_buying THEN 150 ELSE 0)
             + (IF analysis.promoter_deals_count > 1 THEN 50 ELSE 0))

\* Lines 343-361.
determine_accumulation_trend(fii_dii_analysis, mf_analysis, bulk_deal_analysis) ==
    LET positive_indicators ==
            (IF fii_dii_analysis.net_positive_flow THEN 1 ELSE 0)
            + (IF mf_analysis.increasing_holdings THEN 1 ELSE 0)
            + (IF bulk_deal_analysis.institutional_buying THEN 1 ELSE 0)
    IN  IF positive_indicators >= 2 THEN "YES" ELSE "NO"

\* Lines 372-379.
smart_money_default_response ==
    [smart_money_conviction_score |-> Num(0), investors_detected |-> <<>>,
     accumulation_trend |-> "NO", detailed_analysis |-> [error |-> TRUE]]

\* Lines 23-90, the body of the try of analyze.  financial_data.get of line
\* 24 fails on a record that is no mapping; len(mf_holdings) of line 85 and
\* the loop over bulk_deals of line 86 fail on a value that is no list.
smart_money_body(data, fii_dii_data, mf_holdings, bulk_deals, now_is_midnight) ==
    IF ~data.is_mapping \/ ~mf_holdings.is_list \/ ~bulk_deals.is_list THEN Raised
    ELSE LET fii_dii_analysis == analyze_fii_dii_flows(fii_dii_data)
             mf_analysis == analyze_mutual_fund_activity(mf_holdings)
             bulk_deal_analysis == analyze_bulk_deals(bulk_deals, now_is_midnight)
             pe_vc_analysis == analyze_pe_vc_activity(data)
             promoter_buying_analysis == analyze_promoter_buying(bulk_deals, now_is_midnight)
             fii_dii_score == score_fii_dii_activity(fii_dii_analysis)
             mf_score == score_mutual_fund_activity(mf_analysis)
             bulk_deal_score == score_bulk_deal_activity(bulk_deal_analysis)
             pe_vc_score == score_pe_vc_activity(pe_vc_analysis)
             promoter_score == score_promoter_buying(promoter_buying_analysis)
             Recent(deal) == is_recent_deal(deal, now_is_midnight)
         IN  Returned(
               [smart_money_conviction_score |->
                    Num(fii_dii_score + mf_score + bulk_deal_score + pe_vc_score + promoter_score),
                investors_detected |->
                    Evidence(fii_dii_analysis.net_positive_flow, "FII/DII net buyers")
                    \o (IF mf_analysis.increasing_holdings THEN mf_analysis.active_funds ELSE <<>>)
                    \o Evidence(bulk_deal_analysis.institutional_buying, "Institutional bulk buyers")
                    \o Evidence(pe_vc_analysis.pe_vc_presence, "PE/VC investors")
                    \o Evidence(promoter_buying_analysis.promoter_buying, "Promoter buying"),
                accumulation_trend |->
                    determine_accumulation_trend(fii_dii_analysis, mf_analysis, bulk_deal_analysis),
                detailed_analysis |->
                    [error |-> FALSE,
                     fii_net_investment_30d |-> fii_dii_analysis.fii_net_30d,
                     dii_net_investment_30d |-> fii_dii_analysis.dii_net_30d,
                     mf_holding_count |-> Len(mf_holdings.items),
                     bulk_deals_30d |-> Len(SelectSeq(bulk_deals.items, Recent)),
                     institutional_holding_percent |-> fii_dii_analysis.total_institutional_holding]])

\* analyze without the handler of lines 92-94.
smart_money_analyze_unhandled(data, fii_dii_data, mf_holdings, bulk_deals, now_is_midnight) ==
    smart_money_body(data, fii_dii_data, mf_holdings, bulk_deals, now_is_midnight)

\* Lines 17-94: SmartMoneyAgent.analyze(financial_data, fii_dii_data,
\* mf_holdings, bulk_deals); the handler turns an exception of the body
\* into the default response.
smart_money_analyze(data, fii_dii_data, mf_holdings, bulk_deals, now_is_midnight) ==
    LET outcome == smart_money_body(data, fii_dii_data, mf_holdings, bulk_deals, now_is_midnight)
    IN  IF outcome.raised THEN Returned(smart_money_default_response) ELSE outcome

----------------------------------------------------------------------------
(* The fundamental, the management and the smart money agent called on    *)
(* one stock snapshot, some of whose sections are absent.                  *)

VARIABLES
    snapshot,       \* the data of one stock, as the three agents are given it
    mgmt_pc,        \* "idle" until ManagementAgent.analyze has been called, then "done"
    mgmt_result,    \* what ManagementAgent.analyze came to
    smart_pc,       \* "idle" until SmartMoneyAgent.analyze has been called, then "done"
    smart_result    \* what SmartMoneyAgent.analyze came to

snapVars == <<snapshot, mgmt_pc, mgmt_result, smart_pc, smart_result>>

Snapshot(data, shareholding_data, fii_dii_data, mf_holdings, bulk_deals, now_is_midnight) ==
    [financial_data |-> data, shareholding_data |-> shareholding_data,
     fii_dii_data |-> fii_dii_data, mf_holdings |-> mf_holdings,
     bulk_deals |-> bulk_deals, now_is_midnight |-> now_is_midnight]

\* FundamentalAgent.analyze on the snapshot; its provider calls end in one
\* of the ways they can.
AnalyzeSnapshot ==
    \E responses \in AllResponses(ai_providers) : Analyze(snapshot.financial_data, responses)

\* ManagementAgent.analyze on the snapshot.
ManagementAnalyze ==
    /\ mgmt_pc = "idle"
    /\ mgmt_result' = management_analyze(snapshot.financial_data, snapshot.shareholding_data)
    /\ mgmt_pc' = "done"
    /\ UNCHANGED <<snapshot, smart_pc, smart_result>>

\* SmartMoneyAgent.analyze on the snapshot.
SmartMoneyAnalyze ==
    /\ smart_pc = "idle"
    /\ smart_result' = smart_money_analyze(snapshot.financial_data, snapshot.fii_dii_data,
                                           snapshot.mf_holdings, snapshot.bulk_deals,
                                           snapshot.now_is_midnight)
    /\ smart_pc' = "done"
    /\ UNCHANGED <<snapshot, mgmt_pc, mgmt_result>>

(* Inputs: every section present, empty, or passed as None.  To the        *)
(* fundamental analyses an empty financials, balance_sheet or cashflow and *)
(* one that is None are alike: financials is tested with "not", and the    *)
(* handlers of the analyses return what they return for too few periods.   *)
(* A key that is missing is read as the empty value by .get.               *)

RichInfo ==
    Info({"private equity", "mba", "proven", "market leader", "growth", "funding"},
         400, TRUE, TRUE, TRUE, Num(1990))

SectionInfos == {RichInfo, EmptyInfo, NoneValue}

EmptyShareholding == Shareholding(Absent, Absent)

\* Holdings in range, out of range (above 100%, negative), missing, None.
SectionShareholdings ==
    {Shareholding(Num(55), Num(25)), Shareholding(Num(120), Num(-10)), EmptyShareholding, NoneValue}

EmptyFiiDii == FiiDii(Absent, Absent, Absent, Absent)

SectionFiiDii == {FiiDii(Num(20), Num(8), Num(12), Num(5)), EmptyFiiDii, NoneValue}

SectionHoldings ==
    {ListOf(<<Holding(Name("HDFC Equity Fund", {"hdfc"}), Num(4)),
              Holding(Name("SBI Small Cap Fund", {"sbi"}), Num(3))>>),
     ListOf(<<>>), NoList}

SectionDeals ==
    {ListOf(<<Deal(IsoDate(5), Name("BUY", {}), Name("ABC Mutual Fund", {"mutual fund", "fund"}),
                   Num(1000), Num(50)),
              Deal(IsoDate(10), Name("buy", {}), Name("Promoter Group", {"promoter"}),
                   Num(10), Num(50))>>),
     ListOf(<<>>), NoList}

\* financial_data with its financials, balance_sheet and cashflow present
\* or not, and the given info.
SectionStatements(financials, balance_sheet, cashflow, info) ==
    [Statements(IF financials THEN MaxPeriods - 1 ELSE 0, "oldest_first", 115, "expanding",
                IF balance_sheet THEN "low_reducing" ELSE "none",
                IF cashflow THEN 130 ELSE 0)
        EXCEPT !.info = info]

Snapshots ==
    {Snapshot(SectionStatements(financials, balance_sheet, cashflow, info),
              shareholding_data, fii_dii_data, mf_holdings, bulk_deals, FALSE) :
        financials \in BOOLEAN, balance_sheet \in BOOLEAN, cashflow \in BOOLEAN,
        info \in SectionInfos, shareholding_data \in SectionShareholdings,
        fii_dii_data \in SectionFiiDii, mf_holdings \in SectionHoldings,
        bulk_deals \in SectionDeals}

EmptySnapshot ==
    Snapshot(SectionStatements(FALSE, FALSE, FALSE, EmptyInfo), EmptyShareholding,
             EmptyFiiDii, ListOf(<<>>), ListOf(<<>>), FALSE)

----------------------------------------------------------------------------
(* Bridge server (multibagger_webapp/python_bridge/server.py).  A request  *)
(* body is what request.get_json() makes of it; the status is the one the  *)
(* handler returns with its JSON answer.                                   *)

VARIABLES
    research_system,    \* the global research_system: "None" | "system"
    requests,           \* POST /api/analyze requests answered so far
    handled             \* the last request to /api/analyze and its answer

bridgeVars == <<research_system, requests, handled>>

\* The value under 'stocks': kind is "missing", "falsy" (None, 0, '', {}),
\* "other" (a non-empty value that is no list) or "list".
Stocks(kind, items) == [kind |-> kind, items |-> items]

NoStocks == Stocks("missing", <<>>)

\* The body as get_json gives it: kind is "raises" (get_json raises: the
\* body is no JSON, or a Flask that refuses a request without a JSON content
\* type), "falsy" (None, {}, [], 0, ''), "other" (a non-empty JSON value
\* that is no object) or "object".
Body(kind, stocks) == [kind |-> kind, stocks |-> stocks]

NoRequest ==
    [answered |-> FALSE, initialized |-> FALSE, body |-> Body("falsy", NoStocks),
     status |-> 0, error |-> NoKey, ran |-> FALSE]

Answer400(initialized, body, message) ==
    [answered |-> TRUE, initialized |-> initialized, body |-> body,
     status |-> 400, error |-> message, ran |-> FALSE]

Answer500(initialized, body, message, ran) ==
    [answered |-> TRUE, initialized |-> initialized, body |-> body,
     status |-> 500, error |-> message, ran |-> ran]

Answer200(body) ==
    [answered |-> TRUE, initialized |-> TRUE, body |-> body,
     status |-> 200, error |-> NoKey, ran |-> TRUE]

\* initialize_system: research_system is assigned only when the class was
\* imported and its constructor returned.
InitializeSystem(available, constructed) ==
    /\ research_system' = IF available /\ constructed THEN "system" ELSE research_system
    /\ UNCHANGED <<requests, handled>>

\* The checks of analyze_stocks before the analysis (lines 191-214); a body
\* that passes them is analysed.
Rejected(body) ==
    IF research_system = "None"
    THEN Answer400(FALSE, body, "System not initialized. Please initialize first.")
    ELSE IF body.kind = "raises" THEN Answer500(TRUE, body, "Analysis failed", FALSE)
    ELSE IF body.kind = "falsy" THEN Answer400(TRUE, body, "No JSON data provided")
    ELSE IF body.kind = "other" THEN Answer500(TRUE, body, "Analysis failed", FALSE)
    ELSE IF body.stocks.kind \in {"missing", "falsy"} \/ body.stocks.items = <<>>
    THEN Answer400(TRUE, body, "No stocks provided for analysis")
    ELSE IF body.stocks.kind # "list"
    THEN Answer400(TRUE, body, "Stocks must be provided as a list")
    ELSE NoRequest

\* analyze_stocks, as a whole, the discovery it runs included.
AnalyzeStocks(body) ==
    /\ requests' = requests + 1
    /\ UNCHANGED research_system
    /\ IF Rejected(body).answered
       THEN /\ handled' = Rejected(body)
            /\ UNCHANGED <<supVars, fundVars, techVars, discVars>>
       ELSE /\ Discover(body.stocks.items)
            /\ handled' = IF discovery'.error # NoKey
                          THEN Answer500(TRUE, body, discovery'.error, TRUE)
                          ELSE Answer200(body)

(* Inputs of the bridge *)

MaxRequests == 2    \* requests to /api/analyze

StockLists == {Stocks("list", symbols) : symbols \in SeqUpTo(SourceKinds, 2)}

Bodies ==
    {Body(kind, NoStocks) : kind \in {"raises", "falsy", "other"}}
    \cup {Body("object", stocks) :
            stocks \in {NoStocks, Stocks("falsy", <<>>), Stocks("other", <<>>)} \cup StockLists}

----------------------------------------------------------------------------
(* Specifications: each agent is constructed, then called once; the other *)
(* agents stay as constructed.                                            *)

vars == <<supVars, fundVars, techVars, discVars, snapVars, bridgeVars>>

NoFundamentalResult ==
    [fundamental_score |-> 0, key_improving_metrics |-> <<>>,
     red_flags |-> <<>>, detailed_analysis |-> NoDetail]

SupConstructed(weights) ==
    /\ agent_weights = weights
    /\ sup_pc = "idle"
    /\ stock_analyses = <<>>
    /\ high_probability_multibaggers = <<>>
    /\ early_watchlist = <<>>
    /\ rejected_stocks = <<>>
    /\ final_output = NoOutput

FundConstructed(keys) ==
    /\ ai_providers = initialize_ai_providers(keys)
    /\ fund_pc = "idle"
    /\ financial_data = Statements(0, "oldest_first", 100, "flat", "none", 0)
    /\ ai_responses = AllFailed
    /\ score_components = <<>>
    /\ fund_result = NoFundamentalResult
    /\ previous_result = NoFundamentalResult

NoTechnicalResult == technical_analyze(<<>>, Indicators(Absent, Absent))

TechConstructed ==
    /\ tech_pc = "idle"
    /\ price_data = <<>>
    /\ technical_data = Indicators(Absent, Absent)
    /\ tech_result = NoTechnicalResult

DiscConstructed ==
    /\ disc_pc = "idle"
    /\ stock_symbols = <<>>
    /\ discovery = NoDiscovery

\* The management and the smart money agent before their call, to be
\* called on the given snapshot.
AgentsConstructed(data) ==
    /\ snapshot = data
    /\ mgmt_pc = "idle"
    /\ mgmt_result = Returned(management_default_response)
    /\ smart_pc = "idle"
    /\ smart_result = Returned(smart_money_default_response)

\* The bridge at import: research_system = None (line 44), no request yet.
BridgeStarted ==
    /\ research_system = "None"
    /\ requests = 0
    /\ handled = NoRequest

SupInit ==
    /\ \E weights \in WeightConfigs : SupConstructed(weights)
    /\ FundConstructed({})
    /\ TechConstructed
    /\ DiscConstructed
    /\ AgentsConstructed(EmptySnapshot)
    /\ BridgeStarted

SupNext ==
    /\ sup_pc = "idle"
    /\ \/ \E batch \in BatchInputs : Synthesize(batch)
       \/ SynthesizeNoList
    /\ UNCHANGED <<fundVars, techVars, discVars, snapVars, bridgeVars>>

SpecSupervisor == SupInit /\ [][SupNext]_vars

\* A supervisor whose weights put everything on the technical or on the
\* policy score, called on one stock.
TechnicalOnly == Weights(Num(0), Num(0), Num(0), Num(0), Num(100))
PolicyOnly == Weights(Num(0), Num(0), Num(100), Num(0), Num(0))

NormalizeInit ==
    /\ \E weights \in {TechnicalOnly, PolicyOnly} : SupConstructed(weights)
    /\ FundConstructed({})
    /\ TechConstructed
    /\ DiscConstructed
    /\ AgentsConstructed(EmptySnapshot)
    /\ BridgeStarted

NormalizeNext ==
    /\ sup_pc = "idle"
    /\ \E batch \in LabelBatches : Synthesize(batch)
    /\ UNCHANGED <<fundVars, techVars, discVars, snapVars, bridgeVars>>

SpecNormalize == NormalizeInit /\ [][NormalizeNext]_vars

FundInit ==
    /\ SupConstructed(DefaultWeights)
    /\ \E keys \in SUBSET ProviderKeys : FundConstructed(keys)
    /\ TechConstructed
    /\ DiscConstructed
    /\ AgentsConstructed(EmptySnapshot)
    /\ BridgeStarted

FundNext ==
    /\ fund_pc = "idle"
    /\ \E input \in FundInputs(ai_providers) : Analyze(input[1], input[2])
    /\ UNCHANGED <<supVars, techVars, discVars, snapVars, bridgeVars>>

SpecFundamental == FundInit /\ [][FundNext]_vars

\* The fundamental agent without a provider, called on statements of any
\* revenue series.
RevenueInit ==
    /\ SupConstructed(DefaultWeights)
    /\ FundConstructed({})
    /\ TechConstructed
    /\ DiscConstructed
    /\ AgentsConstructed(EmptySnapshot)
    /\ BridgeStarted

RevenueNext ==
    /\ fund_pc = "idle"
    /\ \E series \in RevenueSeries : Analyze(SeriesStatements(series), AllFailed)
    /\ UNCHANGED <<supVars, techVars, discVars, snapVars, bridgeVars>>

SpecRevenue == RevenueInit /\ [][RevenueNext]_vars

\* The fundamental agent without a provider, called on statements of any
\* balance sheet.
DebtNext ==
    /\ fund_pc = "idle"
    /\ \E data \in AllSheets : Analyze(data, AllFailed)
    /\ UNCHANGED <<supVars, techVars, discVars, snapVars, bridgeVars>>

SpecDebt == RevenueInit /\ [][DebtNext]_vars

\* Two calls of analyze in succession on one agent, without a provider or
\* with groq configured.
RepeatInit ==
    /\ SupConstructed(DefaultWeights)
    /\ \E keys \in {{}, {"groq"}} : FundConstructed(keys)
    /\ TechConstructed
    /\ DiscConstructed
    /\ AgentsConstructed(EmptySnapshot)
    /\ BridgeStarted

RepeatNext ==
    /\ \/ FundNext
       \/ /\ fund_pc = "done"
          /\ \E responses \in AllResponses(ai_providers) : AnalyzeAgain(responses)
          /\ UNCHANGED <<supVars, techVars, discVars, snapVars, bridgeVars>>

SpecRepeat == RepeatInit /\ [][RepeatNext]_vars

TechInit ==
    /\ SupConstructed(DefaultWeights)
    /\ FundConstructed({})
    /\ TechConstructed
    /\ DiscConstructed
    /\ AgentsConstructed(EmptySnapshot)
    /\ BridgeStarted

TechNext ==
    /\ tech_pc = "idle"
    /\ \E series \in AllSeries, indicators \in AllIndicators : TechnicalAnalyze(series, indicators)
    /\ UNCHANGED <<supVars, fundVars, discVars, snapVars, bridgeVars>>

SpecTechnical == TechInit /\ [][TechNext]_vars

\* The system as main_system.py constructs it: the supervisor with
\* config.AGENT_WEIGHTS, the fundamental agent with the provider keys of the
\* environment.
DiscInit ==
    /\ SupConstructed(DefaultWeights)
    /\ \E keys \in {{}, {"groq"}} : FundConstructed(keys)
    /\ TechConstructed
    /\ DiscConstructed
    /\ AgentsConstructed(EmptySnapshot)
    /\ BridgeStarted

\* A discovery of a list with symbols synthesizes, which the supervisor does
\* once (the guard of Synthesize).
DiscNext ==
    /\ disc_pc = "idle"
    /\ \/ Discover(<<>>)
       \/ /\ sup_pc = "idle"
          /\ \E k \in 0..MaxSymbols : \E symbols \in SymbolLists(k) \ {<<>>} : Discover(symbols)
       \/ DiscoverNoList
    /\ UNCHANGED <<snapVars, bridgeVars>>

SpecDiscover == DiscInit /\ [][DiscNext]_vars

\* The two entry points of a synthesis, each called once: the supervisor's
\* synthesize_analysis on its own, and discover_multibaggers above it.
EntryNext == SupNext \/ DiscNext

SpecEntry == DiscInit /\ [][EntryNext]_vars

\* The bridge: initialize_system at start-up or on request, and up to
\* MaxRequests requests to /api/analyze, of which one may reach the analysis.
BridgeInit ==
    /\ SupConstructed(DefaultWeights)
    /\ FundConstructed({})
    /\ TechConstructed
    /\ DiscConstructed
    /\ AgentsConstructed(EmptySnapshot)
    /\ BridgeStarted

BridgeNext ==
    /\ \/ /\ \E available \in BOOLEAN, constructed \in BOOLEAN : InitializeSystem(available, constructed)
          /\ UNCHANGED <<supVars, fundVars, techVars, discVars>>
       \/ /\ requests < MaxRequests
          /\ \E body \in Bodies : AnalyzeStocks(body)
    /\ UNCHANGED snapVars

SpecBridge == BridgeInit /\ [][BridgeNext]_vars

\* The three agents, the fundamental one with or without a provider key,
\* each called once on the same snapshot, in any order.
SnapInit ==
    /\ SupConstructed(DefaultWeights)
    /\ \E keys \in {{}, {"groq"}} : FundConstructed(keys)
    /\ TechConstructed
    /\ DiscConstructed
    /\ \E data \in Snapshots : AgentsConstructed(data)
    /\ BridgeStarted

SnapNext ==
    \/ fund_pc = "idle" /\ AnalyzeSnapshot /\ UNCHANGED <<supVars, techVars, discVars, snapVars, bridgeVars>>
    \/ ManagementAnalyze /\ UNCHANGED <<supVars, fundVars, techVars, discVars, bridgeVars>>
    \/ SmartMoneyAnalyze /\ UNCHANGED <<supVars, fundVars, techVars, discVars, bridgeVars>>

SpecSnapshot == SnapInit /\ [][SnapNext]_vars


----------------------------------------------------------------------------
(* Properties of the fundamental analysis *)

Readable == financial_data.is_mapping /\ financial_data.financials.is_mapping

PeriodCount == Len(financial_data.financials.periods)

\* C7: for any input to analyze, with or without enrichment, each of the
\* five sub-scores is in [0,2] and the returned fundamental_score is in
\* [0,10].
C7_Original ==
    fund_pc = "done" =>
        /\ \A i \in 1..Len(score_components) : score_components[i] \in 0..200
        /\ fund_result.fundamental_score \in 0..1000

\* C8 as stated: analyze on statements with fewer than 3 periods, none
\* included, returns the fixed default, score 0 with an insufficient-data
\* reason.
C8_Original ==
    (fund_pc = "done" /\ Readable /\ PeriodCount < 3) =>
        fund_result = fundamental_default_response("Insufficient financial data")

\* C8 as amended: analyze on statements with no period returns the fixed
\* default, score 0 with the reason "Insufficient financial data"; on
\* statements with 1 or 2 periods it returns as well, but after scoring
\* them: the revenue and profitability sub-scores are their default 0.5,
\* the other three are computed, and no insufficient-data reason is given.
C8_OnlyEmptyHistoryIsInsufficient ==
    (fund_pc = "done" /\ Readable) =>
        /\ PeriodCount = 0 =>
              fund_result = fundamental_default_response("Insufficient financial data")
        /\ PeriodCount \in 1..2 =>
              /\ Len(score_components) = 5
              /\ score_components[1] = 50
              /\ score_components[2] = 50
              /\ \A i \in 1..Len(fund_result.red_flags) :
                    fund_result.red_flags[i] # "Insufficient financial data"

\* Two periods scored: a numeric result with three computed sub-scores.
C8_Witness ==
    /\ fund_pc = "done" /\ Readable /\ PeriodCount = 2
    /\ fund_result.detailed_analysis.present
    /\ fund_result.fundamental_score = 500
    /\ score_components = <<50, 50, 50, 150, 200>>

\* The score analyze computes from the five sub-scores and the inflection
\* bonus alone, enrichment apart.
RuleBasedScore ==
    LET a == Analyses(<<>>, AllFailed, financial_data)
    IN  SumOf(ScoreComponents(a))
          + calculate_inflection_bonus(a.revenue, a.profitability, a.efficiency)

\* C10: whatever an enrichment provider does, analyze returns the score of
\* the five sub-scores and the inflection bonus, plus at most an
\* adjustment in [-0.5, +0.5]; the error default never replaces it.
C10_Original ==
    (/\ fund_pc = "done" /\ Readable /\ PeriodCount > 0
     /\ ~ScoreProfitabilityRaises(analyze_profitability(financial_data.financials))) =>
        /\ fund_result.detailed_analysis.present
        /\ LET rule_based == RuleBasedScore
               score == fund_result.fundamental_score
           IN  \/ score < 1000 /\ score - rule_based \in -50..50
               \/ score = 1000 /\ rule_based + 50 >= 1000


----------------------------------------------------------------------------
(* Properties of the technical analysis *)

\* C9: for any price history with fewer than 252 bars, whatever the price
\* pattern and whatever current price or support level is supplied, the
\* technical stage returned is BASE and the base formation lasts 0 months.
C9_ShortHistoryIsBase ==
    (tech_pc = "done" /\ BarCount(price_data) < Window) =>
        /\ tech_result.technical_stage = "BASE"
        /\ tech_result.detailed_analysis.base_formation_bars = 0

\* A short history whose supplied price breaks out above the resistance.
C9_Witness ==
    /\ tech_pc = "done"
    /\ BarCount(price_data) = Window - 1
    /\ tech_result.detailed_analysis.breakout_confirmed
    /\ tech_result.technical_stage = "BASE"
    /\ tech_result.detailed_analysis.base_formation_bars = 0


----------------------------------------------------------------------------
(* Properties of the discovery *)

\* The symbols the loop of discover_multibaggers visits.
Visited == 1..Min(Len(stock_symbols), SymbolLimit)

\* The visited symbols whose record the fundamental analyses cannot read.
BadSymbols ==
    {k \in Visited : ~stock_symbols[k].financial_data_empty
                       /\ BadRecord(stock_symbols[k].financial_data)}

\* A list of N symbols, all visited and all with data, exactly one of
\* them with a bad record.
OneBadRecord ==
    /\ disc_pc = "done"
    /\ stock_symbols # <<>>
    /\ Len(stock_symbols) <= SymbolLimit
    /\ \A k \in Visited : ~stock_symbols[k].financial_data_empty
    /\ Cardinality(BadSymbols) = 1

\* How often the stock of symbol k is in a bucket of the synthesis.
Bucketed(k) ==
    Listed(high_probability_multibaggers, k) + Listed(early_watchlist, k)
      + Listed(rejected_stocks, k)

\* C6 as stated: of N stocks of which exactly one is a bad record for the
\* fundamental analysis, the synthesis has an entry for each of the other
\* N-1, none for the bad one in any bucket, and a total count of N-1.
C6_Original ==
    OneBadRecord =>
        /\ \A k \in Visited \ BadSymbols : Bucketed(k) = 1
        /\ \A k \in BadSymbols : Bucketed(k) = 0
        /\ discovery.results.analysis_summary.total_stocks_analyzed = Len(stock_symbols) - 1

\* C6, amended: of N (at most 20) stocks of which exactly one is a bad
\* record for the fundamental analysis, every stock, the bad one included,
\* is put in exactly one bucket of the synthesis, the discovery returns no
\* error, and the total count is N, as is the sum of the bucket counts.
C6_BadRecordIsKept ==
    OneBadRecord =>
        /\ \A k \in Visited : Bucketed(k) = 1
        /\ discovery.error = NoKey
        /\ discovery.results.analysis_summary.total_stocks_analyzed = Len(stock_symbols)
        /\ discovery.results.analysis_summary.high_conviction_count
             + discovery.results.analysis_summary.watchlist_count
             + discovery.results.analysis_summary.rejected_count = Len(stock_symbols)

\* Three stocks, the second with financials that is no mapping: all three
\* have an entry and the total is 3.
C6_Witness ==
    /\ OneBadRecord
    /\ Len(stock_symbols) = 3
    /\ BadSymbols = {2}
    /\ stock_symbols[2].financial_data.is_mapping
    /\ Bucketed(1) = 1 /\ Bucketed(2) = 1 /\ Bucketed(3) = 1
    /\ discovery.results.analysis_summary.total_stocks_analyzed = 3


----------------------------------------------------------------------------
(* Properties of the agents on a snapshot with absent sections *)

NoInfo == ~snapshot.financial_data.info.is_mapping \/ snapshot.financial_data.info = EmptyInfo
NoFinancials == snapshot.financial_data.financials.periods = <<>>
NoShareholding == snapshot.shareholding_data \in {EmptyShareholding, NoneValue}
NoFiiDii == snapshot.fii_dii_data \in {EmptyFiiDii, NoneValue}
NoHoldings == snapshot.mf_holdings.items = <<>>
NoDeals == snapshot.bulk_deals.items = <<>>

\* C11: whichever sections of the snapshot are absent or empty, analyze of
\* the fundamental, the management and the smart money agent does not
\* raise and returns a mapping whose score field holds a number; the score
\* is the default 0 of the fundamental agent without financials, the sum
\* of the default sub-scores (0, 0.5 or 1.0) of the management agent
\* without info and shareholding, and the default 0 of the smart money
\* agent without info, fii_dii, mutual fund holdings and bulk deals.
C11_AbsentSectionsGiveDefaults ==
    /\ fund_pc = "done" =>
          /\ fund_result.fundamental_score \in Int
          /\ NoFinancials =>
                /\ fund_result.fundamental_score = 0
                /\ fund_result.red_flags = <<"Insufficient financial data">>
    /\ mgmt_pc = "done" =>
          /\ ~mgmt_result.raised
          /\ mgmt_result.result.management_quality_score.tag = "num"
          /\ NoInfo /\ NoShareholding =>
                mgmt_result.result.management_quality_score.val \in {0, 50, 100}
    /\ smart_pc = "done" =>
          /\ ~smart_result.raised
          /\ smart_result.result.smart_money_conviction_score.tag = "num"
          /\ NoInfo /\ NoFiiDii /\ NoHoldings /\ NoDeals =>
                smart_result.result.smart_money_conviction_score = Num(0)

\* All three agents have answered for a snapshot with financials and a
\* balance sheet but nothing else, the lists passed as None: the smart
\* money agent fell back on its default response.
C11_Witness ==
    /\ fund_pc = "done" /\ mgmt_pc = "done" /\ smart_pc = "done"
    /\ ~NoFinancials /\ NoInfo /\ NoShareholding /\ NoFiiDii
    /\ ~snapshot.mf_holdings.is_list /\ ~snapshot.bulk_deals.is_list
    /\ ~snapshot.financial_data.info.is_mapping
    /\ fund_result.fundamental_score > 0
    /\ mgmt_result.result.management_quality_score = Num(0)
    /\ smart_result.result.detailed_analysis.error


----------------------------------------------------------------------------
(* Properties of the entry points on an empty or invalid batch *)

\* The three bucket lists of an output are empty.
EmptyBuckets(output) ==
    /\ output.high_probability_multibaggers = <<>>
    /\ output.early_watchlist = <<>>
    /\ output.rejected_stocks = <<>>

\* discover_multibaggers was given an empty list or a value that is no list.
EmptyOrInvalidSymbols ==
    \/ disc_pc = "failed"
    \/ disc_pc = "done" /\ stock_symbols = <<>>

\* discover_multibaggers was given symbols none of which has data.
SymbolsWithoutData ==
    /\ disc_pc = "done"
    /\ stock_symbols # <<>>
    /\ \A k \in Visited : stock_symbols[k].financial_data_empty

----------------------------------------------------------------------------
(* Properties of the entries of the synthesis *)

\* The entries of the three buckets.
AllEntries == high_probability_multibaggers \o early_watchlist \o rejected_stocks

\* C13: every entry of a bucket carries an agent_consensus that is the one
\* of the five labels that the thresholds 0.85, 0.75, 0.65 and 0.55 give for
\* its multibagger_probability.
C13_Original ==
    \A k \in 1..Len(AllEntries) :
        AllEntries[k].agent_consensus = determine_consensus(AllEntries[k].multibagger_probability)

----------------------------------------------------------------------------
(* Properties of the bridge server *)

CarriesStocks(body) ==
    body.kind = "object" /\ body.stocks.kind = "list" /\ body.stocks.items # <<>>

\* C15: POST /api/analyze runs discover_multibaggers only when the system
\* is initialized and the body carries a non-empty list under 'stocks'; every
\* other request is answered with status 400 and runs no analysis.
C15_Original ==
    handled.answered =>
        IF handled.initialized /\ CarriesStocks(handled.body)
        THEN handled.ran
        ELSE handled.status = 400 /\ ~handled.ran

\* The analysis runs for no other request.
C15_RunsOnlyWhenAsked ==
    handled.answered =>
        (handled.ran <=> handled.initialized /\ CarriesStocks(handled.body))

----------------------------------------------------------------------------
(* Properties of the enrichment *)

\* analyze returned a scored result for which the enrichment ran.
Enriched ==
    /\ fund_pc \in {"done", "again"}
    /\ ai_providers # <<>>
    /\ fund_result.detailed_analysis.present

\* The exchange with a provider ended in a timeout, a connection error or
\* a status other than 2xx.
ExchangeFailed(provider_name) == ai_responses[provider_name].status # "ok"

\* The providers the loop of _get_ai_insights called: those up to the first
\* whose call gave a non-empty object.
RECURSIVE ProvidersCalled(_, _)
ProvidersCalled(providers, responses) ==
    IF providers = <<>> THEN <<>>
    ELSE IF call_provider(Head(providers), responses[Head(providers)]).kind = "dict"
    THEN <<Head(providers)>>
    ELSE <<Head(providers)>> \o ProvidersCalled(Tail(providers), responses)

PriorityOf(provider_name) ==
    CASE provider_name = "groq" -> 1
      [] provider_name = "huggingface" -> 2
      [] provider_name = "anthropic" -> 3

ProviderUsed == fund_result.detailed_analysis.ai_provider_used

\* C16: the providers are tried in the order groq, huggingface, anthropic;
\* one is called only after every provider before it has failed; a provider
\* whose exchange ends in a timeout or a status other than 2xx has failed and
\* is not the one used; when all have failed the rule-based fallback gives
\* the result.
C16_Original ==
    Enriched =>
        LET called == ProvidersCalled(ai_providers, ai_responses)
        IN  /\ \A i, j \in 1..Len(ai_providers) :
                   i < j => PriorityOf(ai_providers[i]) < PriorityOf(ai_providers[j])
            /\ \A k \in 1..Len(called) : called[k] = ai_providers[k]
            /\ \A k \in 1..Len(called) : \A j \in 1..(k - 1) : ProviderUsed # called[j]
            /\ \A k \in 1..Len(ai_providers) :
                   ExchangeFailed(ai_providers[k]) =>
                       /\ ProviderUsed # ai_providers[k]
                       /\ k \in 1..Len(called) => Len(called) > k \/ ProviderUsed = "fallback_analysis"
            /\ (\A k \in 1..Len(ai_providers) : ExchangeFailed(ai_providers[k])) =>
                   ProviderUsed = "fallback_analysis"

\* The same with the exchange of huggingface that ends in status 503 left
\* out of the failures.
FailedForTheCode(provider_name) ==
    /\ ExchangeFailed(provider_name)
    /\ ~(provider_name = "huggingface" /\ ai_responses[provider_name].status = "loading")

C16_LoadingIsNoFailure ==
    Enriched =>
        LET called == ProvidersCalled(ai_providers, ai_responses)
        IN  /\ \A k \in 1..Len(ai_providers) :
                   FailedForTheCode(ai_providers[k]) =>
                       /\ ProviderUsed # ai_providers[k]
                       /\ k \in 1..Len(called) => Len(called) > k \/ ProviderUsed = "fallback_analysis"
            /\ (\A k \in 1..Len(ai_providers) : FailedForTheCode(ai_providers[k])) =>
                   ProviderUsed = "fallback_analysis"

\* The insights object the enrichment of the call gave to analyze.
InsightsUsed == Analyses(ai_providers, ai_responses, financial_data).ai_insights

\* C17: whichever source produced the enrichment, a provider or the
\* rule-based fallback, it brings at most 3 strength lines, at most 2 risk
\* lines and a score adjustment within [-0.5, +0.5].
C17_Original ==
    Enriched =>
        /\ Len(InsightsUsed.strengths.items) <= 3
        /\ Len(InsightsUsed.risks.items) <= 2
        /\ InsightsUsed.ai_score_adjustment.val \in -50..50

\* The rule-based fallback keeps the three bounds.
C17_FallbackIsBounded ==
    (Enriched /\ ProviderUsed = "fallback_analysis") =>
        /\ Len(InsightsUsed.strengths.items) <= 3
        /\ Len(InsightsUsed.risks.items) <= 2
        /\ InsightsUsed.ai_score_adjustment.val \in -50..50

----------------------------------------------------------------------------
(* Properties of the revenue analysis *)

\* The revenue of the periods of the call, oldest first.
Revenues ==
    LET sorted == SortByDate(financial_data.financials.periods)
    IN  [i \in 1..Len(sorted) |-> sorted[i].revenue]

RevenueAnalysis == analyze_revenue_growth(financial_data.financials)

\* C18: for revenue growing 10% a period over five periods (100, 110, 121,
\* 133.1, 146.41) the analysis reports a CAGR of about 10.0% (within 0.1%)
\* and improving_trend true.
C18_Original ==
    (fund_pc = "done" /\ Revenues = TenPercentSeries) =>
        /\ fund_result.detailed_analysis.revenue_cagr_5y \in 990..1010
        /\ RevenueAnalysis.improving_trend
        /\ \E k \in 1..Len(fund_result.key_improving_metrics) :
               fund_result.key_improving_metrics[k] = "Revenue CAGR improving"

\* The revenue analysis ran on three periods or more and analyze scored it.
RevenueScored ==
    /\ fund_pc = "done"
    /\ fund_result.detailed_analysis.present
    /\ Len(Revenues) >= 3
    /\ Len(score_components) >= 1

\* analyze reports the declining trend as its first red flag.
DecliningReported ==
    fund_result.red_flags # <<>> /\ fund_result.red_flags[1] = "Declining revenue trend"

CagrBelowMinusFive == fund_result.detailed_analysis.revenue_cagr_5y < -500

\* The latest revenue is below 90% of the revenue k periods before it.
BelowNinetyPercentOf(k) ==
    LET n == Len(Revenues)
    IN  n > k /\ Revenues[n] * 10 < Revenues[n - k] * 9

\* C19: the trend is flagged declining exactly when the CAGR is below -5% or
\* the latest revenue is below 90% of the revenue 3 periods back; a declining
\* flag forces the revenue sub-score to 0.
C19_Original ==
    RevenueScored =>
        /\ DecliningReported <=> (CagrBelowMinusFive \/ BelowNinetyPercentOf(3))
        /\ DecliningReported => score_components[1] = 0

\* C19, amended: the trend is flagged declining exactly when the CAGR is
\* below -5% or the latest revenue is below 90% of the revenue of the third
\* most recent period, which is 2 periods back; a declining flag forces the
\* revenue sub-score to 0.
C19_ThirdMostRecentPeriod ==
    RevenueScored =>
        /\ DecliningReported <=> (CagrBelowMinusFive \/ BelowNinetyPercentOf(2))
        /\ DecliningReported => score_components[1] = 0

\* Declining by the revenue 2 periods back alone: the CAGR is not below -5%
\* and the revenue 3 periods back is not above the latest by a tenth.
C19_Witness ==
    /\ RevenueScored
    /\ DecliningReported
    /\ ~CagrBelowMinusFive
    /\ BelowNinetyPercentOf(2)
    /\ Len(Revenues) >= 4
    /\ ~BelowNinetyPercentOf(3)
    /\ score_components[1] = 0

----------------------------------------------------------------------------
(* Properties of the debt analysis *)

Sheet == financial_data.balance_sheet

\* analyze scored a balance sheet of two periods or more, one of them with
\* equity 0.
ZeroEquityScored ==
    /\ fund_pc = "done"
    /\ Len(Sheet) >= 2
    /\ \E i \in 1..Len(Sheet) : Sheet[i].equity = 0

ReportedDebtToEquity == fund_result.detailed_analysis.debt_to_equity

SameRatio(a, b) == a.num * b.den = b.num * a.den

\* The period of the latest date.
LatestPeriod ==
    CHOOSE row \in {Sheet[i] : i \in 1..Len(Sheet)} :
        \A i \in 1..Len(Sheet) : Sheet[i].date <= row.date

\* The positions, in the order of the balance sheet, of the periods with
\* positive equity.
PositiveEquityAt == {i \in 1..Len(Sheet) : Sheet[i].equity > 0}

----------------------------------------------------------------------------
(* Properties of the technical stage *)

\* The base is GOOD or EXCELLENT: 24 months of 21 bars or more.
GoodBase == tech_result.detailed_analysis.base_formation_bars >= 24 * BarsPerMonth

BreakoutConfirmed == tech_result.detailed_analysis.breakout_confirmed

\* The last close of the series is more than 50% above the resistance.
CloseExtended ==
    /\ price_data # <<>>
    /\ (LastClose(price_data) - tech_result.detailed_analysis.resistance_level) * 100
         > 50 * tech_result.detailed_analysis.resistance_level

----------------------------------------------------------------------------
(* Properties of the normalized scores *)

\* The tables of the claim: stage and strength in tenths, multipliers in
\* hundredths.
StageValue(label) ==
    CASE label = "BREAKOUT" -> 9 [] label = "BASE" -> 7 [] label = "EXTENDED" -> 4

RiskRewardMultiplier(label) ==
    CASE label = "1:3+" -> 120 [] label = "1:2" -> 110 [] label = "1:1.5" -> 100 [] label = "1:1" -> 95

StrengthValue(label) ==
    CASE label = "STRONG" -> 9 [] label = "MODERATE" -> 7 [] label = "WEAK" -> 4

HorizonMultiplier(label) ==
    CASE label = "LONG" -> 110 [] label = "MEDIUM" -> 100 [] label = "SHORT" -> 90

\* The one stock of the batch and its entry; with all the weight on one
\* agent the probability of the entry is that agent's normalized score.
OneStockSynthesized ==
    sup_pc = "done" /\ Len(stock_analyses) = 1 /\ Len(AllEntries) = 1

TheStock == stock_analyses[1]

TheProbability == AllEntries[1].multibagger_probability

KnownTechnicalLabels ==
    /\ TheStock.technical_analysis.is_mapping
    /\ TheStock.technical_analysis.technical_stage \in StageLabels
    /\ TheStock.technical_analysis.risk_reward_ratio \in RiskRewardLabels

KnownPolicyLabels ==
    /\ TheStock.policy_analysis.is_mapping
    /\ TheStock.policy_analysis.policy_tailwind_strength \in StrengthLabels
    /\ TheStock.policy_analysis.time_horizon \in HorizonLabels

\* C22: the normalized technical score is min(1.0, stage value x risk/reward
\* multiplier) and the normalized policy score min(1.0, strength value x
\* horizon multiplier), by the tables of the claim; for any output, unknown
\* labels included, both lie in [0,1].
C22_NormalizedScores ==
    OneStockSynthesized =>
        /\ TheProbability \in 0..ONE
        /\ normalize_technical_score(TheStock.technical_analysis) \in 0..1000
        /\ normalize_policy_score(TheStock.policy_analysis) \in 0..1000
        /\ (agent_weights = TechnicalOnly /\ KnownTechnicalLabels) =>
               TheProbability =
                   100 * Min(1000, StageValue(TheStock.technical_analysis.technical_stage)
                                     * RiskRewardMultiplier(TheStock.technical_analysis.risk_reward_ratio))
        /\ (agent_weights = PolicyOnly /\ KnownPolicyLabels) =>
               TheProbability =
                   100 * Min(1000, StrengthValue(TheStock.policy_analysis.policy_tailwind_strength)
                                     * HorizonMultiplier(TheStock.policy_analysis.time_horizon))

\* The cap is at work: BREAKOUT at 1:3+ is 0.9 x 1.2, reported as 1.0.
C22_Witness ==
    /\ OneStockSynthesized
    /\ agent_weights = TechnicalOnly
    /\ TheStock.technical_analysis.technical_stage = "BREAKOUT"
    /\ TheStock.technical_analysis.risk_reward_ratio = "1:3+"
    /\ TheProbability = ONE

----------------------------------------------------------------------------
(* Properties of the management and the smart money scores *)

\* The four sub-scores of the management agent on the snapshot.
ManagementSubScores ==
    LET info == snapshot.financial_data.info
    IN  <<score_promoter_quality(analyze_promoter_changes(snapshot.shareholding_data, info)),
          score_governance(analyze_governance_quality(info)),
          score_track_record(analyze_management_track_record(info)),
          score_transparency(analyze_transparency(info))>>

\* The five sub-scores of the smart money agent on the snapshot.
SmartMoneySubScores ==
    <<score_fii_dii_activity(analyze_fii_dii_flows(snapshot.fii_dii_data)),
      score_mutual_fund_activity(analyze_mutual_fund_activity(snapshot.mf_holdings)),
      score_bulk_deal_activity(analyze_bulk_deals(snapshot.bulk_deals, snapshot.now_is_midnight)),
      score_pe_vc_activity(analyze_pe_vc_activity(snapshot.financial_data)),
      score_promoter_buying(analyze_promoter_buying(snapshot.bulk_deals, snapshot.now_is_midnight))>>

ManagementScored == mgmt_pc = "done" /\ ~mgmt_result.result.detailed_analysis.error

SmartMoneyScored == smart_pc = "done" /\ ~smart_result.result.detailed_analysis.error

\* C23: each of the four management sub-scores is in [0,2.5] and each of the
\* five smart money sub-scores in [0,2]; management_quality_score and
\* smart_money_conviction_score are in [0,10].
C23_SubScoresBounded ==
    /\ mgmt_pc = "done" =>
           /\ mgmt_result.result.management_quality_score.tag = "num"
           /\ mgmt_result.result.management_quality_score.val \in 0..1000
    /\ ManagementScored =>
           /\ \A i \in 1..4 : ManagementSubScores[i] \in 0..250
           /\ mgmt_result.result.detailed_analysis.governance_score \in 0..250
           /\ mgmt_result.result.detailed_analysis.transparency_score \in 0..250
    /\ smart_pc = "done" =>
           /\ smart_result.result.smart_money_conviction_score.tag = "num"
           /\ smart_result.result.smart_money_conviction_score.val \in 0..1000
    /\ SmartMoneyScored =>
           \A i \in 1..5 : SmartMoneySubScores[i] \in 0..200

\* Both agents scored, the transparency score at its cap.
C23_Witness ==
    /\ ManagementScored
    /\ SmartMoneyScored
    /\ mgmt_result.result.detailed_analysis.transparency_score = 250
    /\ mgmt_result.result.management_quality_score.val > 500
    /\ smart_result.result.smart_money_conviction_score.val > 300

----------------------------------------------------------------------------
(* Recency of bulk deals: the smart money agent called on lists of one or *)
(* two deals whose dates lie around the cutoff, lie ahead of today, or are *)
(* no dates.                                                               *)

\* Dates to come, of today, on either side of the cutoff, and no dates.
DealDates ==
    {IsoDate(-1), IsoDate(0), IsoDate(RecentDays - 1), IsoDate(RecentDays),
     IsoDate(RecentDays + 1), TextDate, NoStringDate, NoDate}

DealClients ==
    {Name("ABC Mutual Fund", {"mutual fund", "fund"}), Name("Promoter Group", {"promoter"}),
     Name("XYZ Traders", {})}

DatedDeals ==
    {Deal(date, Name(side, {}), client_name, Num(100), Num(50)) :
        date \in DealDates, side \in {"BUY", "SELL"}, client_name \in DealClients}

\* A deal of 2 months ago or without a date, beside which the dated deal
\* stands in the list.
OlderDeals ==
    {Deal(IsoDate(2 * RecentDays), Name("BUY", {}), Name("Old Insurance Fund", {"insurance", "fund"}),
          Num(500), Num(50)),
     Deal(NoDate, Name("BUY", {}), Name("Founder Trust", {"founder"}), Num(500), Num(50))}

DealLists ==
    {ListOf(<<deal>>) : deal \in DatedDeals}
      \cup {ListOf(<<older, deal>>) : older \in OlderDeals, deal \in DatedDeals}

DealSnapshots ==
    {Snapshot(SectionStatements(FALSE, FALSE, FALSE, EmptyInfo), EmptyShareholding,
              EmptyFiiDii, ListOf(<<>>), bulk_deals, now_is_midnight) :
        bulk_deals \in DealLists, now_is_midnight \in BOOLEAN}

DealsInit ==
    /\ SupConstructed(DefaultWeights)
    /\ FundConstructed({})
    /\ TechConstructed
    /\ DiscConstructed
    /\ \E data \in DealSnapshots : AgentsConstructed(data)
    /\ BridgeStarted

DealsNext == SmartMoneyAnalyze /\ UNCHANGED <<supVars, fundVars, techVars, discVars, bridgeVars>>

SpecDeals == DealsInit /\ [][DealsNext]_vars

\* The date of the deal is an ISO date of the 30 days up to now: not after
\* today, and not before the cutoff.
WithinLastThirtyDays(deal) ==
    /\ deal.is_mapping
    /\ deal.date.kind = "iso"
    /\ deal.date.days_ago >= 0
    /\ \/ deal.date.days_ago < RecentDays
       \/ deal.date.days_ago = RecentDays /\ snapshot.now_is_midnight

DealsOfSnapshot == snapshot.bulk_deals.items

DealsCounted == smart_result.result.detailed_analysis.bulk_deals_30d

SmartMoneySignals == smart_result.result.investors_detected

Reported(signal) == \E k \in 1..Len(SmartMoneySignals) : SmartMoneySignals[k] = signal

\* C24: a bulk deal counts as recent exactly when its date is an ISO date
\* within the 30 days before now: the recent deals the agent reports are
\* those, and without such a deal neither institutional bulk buying nor
\* promoter buying is reported and the bulk deals add nothing to the score.
C24_Original ==
    SmartMoneyScored =>
        /\ DealsCounted = Len(SelectSeq(DealsOfSnapshot, WithinLastThirtyDays))
        /\ (\A k \in 1..Len(DealsOfSnapshot) : ~WithinLastThirtyDays(DealsOfSnapshot[k])) =>
               /\ ~Reported("Institutional bulk buyers")
               /\ ~Reported("Promoter buying")
               /\ smart_result.result.smart_money_conviction_score.val = 0

----------------------------------------------------------------------------
(* Triggers and risks of an entry: the supervisor called on one stock     *)
(* whose agents report findings in every number, or none, or None.         *)

WithFindings(analysis, metrics, flags, changes, alignment, investors) ==
    [analysis EXCEPT !.fundamental_analysis.key_improving_metrics = metrics,
                     !.fundamental_analysis.red_flags = flags,
                     !.management_analysis.evidence_of_change = changes,
                     !.management_analysis.minority_shareholder_alignment = alignment,
                     !.smart_money_analysis.investors_detected = investors]

FindingAnalyses ==
    {WithFindings(Analysis(Num(600), Num(500), Num(500), stage, "1:1", strength, "MEDIUM"),
                  metrics, flags, changes, alignment, investors) :
        stage \in {"BASE", "EXTENDED"},
        strength \in {"STRONG", "WEAK"},
        metrics \in {ListOf(<<>>), NoList,
                     ListOf(<<"Revenue CAGR improving", "ROCE improving", "ROE improving">>)},
        flags \in {ListOf(<<>>), NoList, ListOf(<<"High debt levels">>),
                   ListOf(<<"Declining revenue trend", "High debt levels", "Poor cash conversion">>)},
        changes \in {ListOf(<<>>), ListOf(<<"Strategic investor entry", "Professional management">>)},
        alignment \in {"LOW", "MEDIUM", NoKey},
        investors \in {ListOf(<<>>), NoList,
                       ListOf(<<"FII/DII net buyers", "PE/VC investors", "Promoter buying">>)}}
    \cup {[Typical(Num(600)) EXCEPT !.financial_data.is_mapping = FALSE],
          [Typical(Num(600)) EXCEPT !.technical_analysis.is_mapping = FALSE]}

FindingBatches == {BatchOf(<<a>>) : a \in FindingAnalyses}

FindingsInit ==
    /\ SupConstructed(DefaultWeights)
    /\ FundConstructed({})
    /\ TechConstructed
    /\ DiscConstructed
    /\ AgentsConstructed(EmptySnapshot)
    /\ BridgeStarted

FindingsNext ==
    /\ sup_pc = "idle"
    /\ \E batch \in FindingBatches : Synthesize(batch)
    /\ UNCHANGED <<fundVars, techVars, discVars, snapVars, bridgeVars>>

SpecFindings == FindingsInit /\ [][FindingsNext]_vars

TheEntry == AllEntries[1]

GenericRisks == <<"Market volatility", "Execution risk">>

\* None of the three agents read for risks reports one: no red flag, an
\* alignment that is not LOW, a stage that is not EXTENDED.
NoRiskReported(stock_analysis) ==
    /\ \/ ~stock_analysis.fundamental_analysis.is_mapping
       \/ ~stock_analysis.fundamental_analysis.red_flags.is_list
       \/ stock_analysis.fundamental_analysis.red_flags.items = <<>>
    /\ \/ ~stock_analysis.management_analysis.is_mapping
       \/ stock_analysis.management_analysis.minority_shareholder_alignment # "LOW"
    /\ \/ ~stock_analysis.technical_analysis.is_mapping
       \/ stock_analysis.technical_analysis.technical_stage # "EXTENDED"

\* The entry comes from a handler: the one of _create_stock_entry, or the
\* one of _extract_major_risks for red flags that are no list.
RisksFromHandler(stock_analysis) ==
    \/ CreateEntryRaises(stock_analysis)
    \/ ~stock_analysis.fundamental_analysis.red_flags.is_list

\* C25 as stated: every entry has at most 5 key_triggers and at most 4
\* major_risks, its major_risks are never empty, and they are exactly
\* 'Market volatility' and 'Execution risk' when no agent reports a risk.
C25_Original ==
    OneStockSynthesized =>
        /\ Len(TheEntry.key_triggers) <= 5
        /\ Len(TheEntry.major_risks) \in 1..4
        /\ NoRiskReported(TheStock) => TheEntry.major_risks = GenericRisks

\* C25: every entry has at most 5 key_triggers and at most 4 major_risks and
\* its major_risks are never empty; when no agent reports a risk they are
\* exactly 'Market volatility' and 'Execution risk', unless a handler built
\* them: then they are the one risk 'Data insufficient' of the entry of
\* _create_stock_entry's handler, or 'Analysis incomplete' of the handler of
\* _extract_major_risks.
C25_PlaceholdersUnlessHandled ==
    OneStockSynthesized =>
        /\ Len(TheEntry.key_triggers) <= 5
        /\ Len(TheEntry.major_risks) \in 1..4
        /\ NoRiskReported(TheStock) =>
               TheEntry.major_risks =
                   IF CreateEntryRaises(TheStock) THEN <<"Data insufficient">>
                   ELSE IF RisksFromHandler(TheStock) THEN <<"Analysis incomplete">>
                   ELSE GenericRisks

\* An entry with 5 triggers and 4 risks, and one with the two generic risks.
C25_Witness ==
    /\ OneStockSynthesized
    /\ \/ Len(TheEntry.key_triggers) = 5 /\ Len(TheEntry.major_risks) = 4
       \/ NoRiskReported(TheStock) /\ TheEntry.major_risks = GenericRisks

----------------------------------------------------------------------------
(* Isolation of the agents: a discovery of one symbol, some of whose       *)
(* agents raise, or whose FII/DII data, read by the smart money agent      *)
(* alone, is None.                                                         *)

FailingSources ==
    {[Source(record, others) EXCEPT !.raises = raises, !.fii_dii_data = fii_dii_data] :
        record \in {Statements(MaxPeriods, "oldest_first", 120, "expanding", "low_reducing", 160),
                    Statements(MaxPeriods - 1, "newest_first", 108, "flat", "moderate", 90)},
        others \in {StrongOthers, MiddlingOthers},
        raises \in SUBSET AgentNames,
        fii_dii_data \in {[is_mapping |-> TRUE], NoneValue}}

IsolationInit ==
    /\ SupConstructed(DefaultWeights)
    /\ FundConstructed({})
    /\ TechConstructed
    /\ DiscConstructed
    /\ AgentsConstructed(EmptySnapshot)
    /\ BridgeStarted

IsolationNext ==
    /\ disc_pc = "idle"
    /\ \E source \in FailingSources : Discover(<<source>>)
    /\ UNCHANGED <<snapVars, bridgeVars>>

SpecIsolation == IsolationInit /\ [][IsolationNext]_vars

\* The agents a failure of the source touches: those that raise, and the
\* smart money agent when the FII/DII data is None.
FailedAgents(source) ==
    source.raises \cup (IF source.fii_dii_data.is_mapping THEN {} ELSE {"smart_money"})

\* The analysis of the same stock without any failure.
WithoutFailure(symbol, source) ==
    run_multi_agent_analysis(ai_providers, symbol,
        get_comprehensive_stock_data([source EXCEPT !.raises = {},
                                                    !.fii_dii_data = [is_mapping |-> TRUE]]))

OutputOf(analysis, agent) ==
    CASE agent = "fundamental" -> analysis.fundamental_analysis
      [] agent = "management" -> analysis.management_analysis
      [] agent = "technical" -> analysis.technical_analysis
      [] agent = "smart_money" -> analysis.smart_money_analysis
      [] agent = "policy" -> analysis.policy_analysis

----------------------------------------------------------------------------
(* Properties of the order of the periods *)

ReverseOf(periods) == [k \in 1..Len(periods) |-> periods[Len(periods) + 1 - k]]

\* The same period-to-fields mappings, each stored in the reverse order.
Reordered(data) ==
    [data EXCEPT !.financials.periods = ReverseOf(@),
                 !.balance_sheet = ReverseOf(@),
                 !.cashflow = ReverseOf(@)]

\* C27: the result of analyze does not depend on the order in which the
\* periods are stored: the statements with the periods of financials,
\* balance_sheet and cashflow in the reverse order give the same
\* fundamental_score.
C27_Original ==
    (fund_pc = "done" /\ Readable) =>
        fund_result.fundamental_score
          = analyze(ai_providers, ai_responses, Reordered(financial_data)).fundamental_score

----------------------------------------------------------------------------
(* Properties of the breakout *)

\* The current price is the last close of the series: technical_data holds
\* that close, or holds no current price (the missing key and 0 are both
\* replaced by the last close).
PriceIsLastClose ==
    /\ price_data # <<>>
    /\ \/ technical_data.current_price = Absent
       \/ technical_data.current_price = Num(0)
       \/ technical_data.current_price = Num(LastClose(price_data))

HighAboveClose == \A i \in 1..Len(price_data) : price_data[i].High >= price_data[i].Close

\* The last close is more than 2% above every High before the last bars.
ClosesAtNewHigh ==
    /\ Len(price_data) > 1
    /\ \A i \in 1..(Len(price_data) - 1) : LastClose(price_data) * 100 > price_data[i].High * 102

\* C28: when the current price is the last close of the series and every
\* bar has High >= Close, the breakout is not confirmed and the stage is
\* BASE: the resistance is the highest High of the last 252 bars, the
\* current bar among them.
C28_NoBreakoutAtLastClose ==
    (tech_pc = "done" /\ PriceIsLastClose /\ HighAboveClose) =>
        /\ ~tech_result.detailed_analysis.breakout_confirmed
        /\ tech_result.technical_stage = "BASE"

\* A series that has formed a base and whose last close is a new high.
C28_Witness ==
    /\ tech_pc = "done"
    /\ PriceIsLastClose
    /\ HighAboveClose
    /\ ClosesAtNewHigh
    /\ tech_result.detailed_analysis.base_formation_bars >= 12 * BarsPerMonth
    /\ tech_result.technical_stage = "BASE"

----------------------------------------------------------------------------
(* Properties of the reported probability *)

ReportedIn(bucket) == {bucket[k].multibagger_probability : k \in 1..Len(bucket)}

\* C29: the multibagger_probability an entry reports, rounded to 3
\* decimals, agrees with the bucket that holds the entry: it is at least
\* 0.60 in high_probability_multibaggers, in [0.45, 0.60) in early_watchlist
\* and below 0.45 in rejected_stocks.
C29_Original ==
    sup_pc = "done" =>
        /\ \A p \in ReportedIn(high_probability_multibaggers) : p >= multibagger_threshold
        /\ \A p \in ReportedIn(early_watchlist) : p >= watchlist_threshold /\ p < multibagger_threshold
        /\ \A p \in ReportedIn(rejected_stocks) : p < watchlist_threshold

----------------------------------------------------------------------------
(* Properties of the limit of a discovery *)

\* The entries of the three buckets of the output returned.
EntriesReturned ==
    Len(discovery.results.high_probability_multibaggers)
      + Len(discovery.results.early_watchlist)
      + Len(discovery.results.rejected_stocks)

\* C30: a discovery analyses at most the first 20 symbols of its list, in
\* list order: every analysis handed to the supervisor is of one of the
\* first 20 symbols, the analyses follow the order of the list, the three
\* buckets together hold at most 20 entries and total_stocks_analyzed is at
\* most 20.
C30_AtMostTwentySymbols ==
    disc_pc = "done" =>
        /\ Len(stock_analyses) <= SymbolLimit
        /\ \A k \in 1..Len(stock_analyses) :
              /\ stock_analyses[k].symbol \in 1..Min(Len(stock_symbols), SymbolLimit)
              /\ \A j \in 1..(k - 1) : stock_analyses[j].symbol < stock_analyses[k].symbol
        /\ EntriesReturned <= SymbolLimit
        /\ discovery.results.analysis_summary.total_stocks_analyzed <= SymbolLimit

\* A list of more than 20 symbols, 20 of which were analysed, the symbols
\* behind the 20th having data.
C30_Witness ==
    /\ disc_pc = "done"
    /\ Len(stock_symbols) > SymbolLimit
    /\ \A k \in (SymbolLimit + 1)..Len(stock_symbols) : ~stock_symbols[k].financial_data_empty
    /\ Len(stock_analyses) = SymbolLimit
    /\ discovery.results.analysis_summary.total_stocks_analyzed = SymbolLimit

====
